---- MODULE Spec2Model ----
(***************************************************************************)
(* Model of the Midea air appliances (LAN) integration:                    *)
(*   - the discovery / configuration reconciliation of                     *)
(*     appliance_discovery.py (ApplianceDiscoveryHelper), with the         *)
(*     coordinators created by the entry setup of hub.py;                  *)
(*   - the refresh cycle of one ApplianceUpdateCoordinator                 *)
(*     (appliance_coordinator.py).                                         *)
(* Spec          : entry setup, helper start and discovery cycles.         *)
(* SpecCoord     : refresh ticks of one coordinator against a clock.       *)
(* SpecConc      : overlapping refresh cycles of one coordinator.          *)
(* SpecScan      : the scans of the discovery timer.                       *)
(* SpecSetup     : Hub.async_setup and the unload of the entry.            *)
(* SpecFlow      : the steps of the config flow.                           *)
(* SpecRedact    : the redaction of logged configurations.                 *)
(* SpecGenerator : one pass of the address generator.                      *)
(* SpecTimer     : start() and stop() of the discovery helper.             *)
(***************************************************************************)
EXTENDS Integers, Sequences, FiniteSets, TLC

(***************************************************************************)
(* Constants of const.py                                                   *)
(***************************************************************************)
DISCOVERY_IGNORE == "IGNORE"
DISCOVERY_LAN == "LAN"
DISCOVERY_CLOUD == "CLOUD"
DISCOVERY_WAIT == "WAIT"
UNKNOWN_IP == "0.0.0.0"
LOCAL_BROADCAST == "255.255.255.255"
DISCOVERY_BATCH_SIZE == 64
DEFAULT_SCAN_INTERVAL == 15

APPLIANCE_TYPE_DEHUMIDIFIER == "0xa1"
APPLIANCE_TYPE_AIRCON == "0xac"

\* A LanDevice whose address is None or empty (falsy in `if not device.address`)
NoAddress == ""
\* A configuration value that was never filled in
NoValue == ""

(***************************************************************************)
(* Bounds of the model                                                     *)
(***************************************************************************)
\* longest scan result (list returned by find_appliances)
MaxScan == 2
\* last instant of the monotonic clock, in seconds
MaxTime == 4
\* longest time to leave (CONF_TTL) of a coordinator, in seconds
MaxTTL == 2
\* most calls of async_apply in one behaviour
MaxWrites == 3
\* most discovery ticks after one _setup
MaxTicks == 4
Serials == {"S1", "S2"}
Addresses == {"A1", "A2"}

\* hub.config[CONF_INCLUDE]: the appliance categories the entry handles
Include == {APPLIANCE_TYPE_DEHUMIDIFIER}

(***************************************************************************)
(* Values                                                                  *)
(***************************************************************************)
\* What the device client reports for the appliance with serial number sn
TokenOf(sn) == IF sn = "S1" THEN "token1" ELSE "token2"
KeyOf(sn) == IF sn = "S1" THEN "key1" ELSE "key2"
IdOf(sn) == IF sn = "S1" THEN "id1" ELSE "id2"
\* The MAC address, as its characters; empty when the device reports none
MacOf(sn) == IF sn = "S1" THEN <<>> ELSE <<"9", "c", "a", "5", "2", "5">>
ModelOf(sn) == IF sn = "S1" THEN "Dehumidifier" ELSE "DF-20"
VersionOf(sn) == IF sn = "S1" THEN 3 ELSE 2

LanDevice(sn, addr, type) ==
    [serial_number |-> sn, address |-> addr, type |-> type,
     token |-> TokenOf(sn), key |-> KeyOf(sn), appliance_id |-> IdOf(sn),
     version |-> VersionOf(sn), mac |-> MacOf(sn), model |-> ModelOf(sn)]

\* The devices a scan can report
ScanDevices ==
    { LanDevice("S1", "A1", APPLIANCE_TYPE_DEHUMIDIFIER),
      LanDevice("S1", "A2", APPLIANCE_TYPE_DEHUMIDIFIER),
      LanDevice("S2", "A1", APPLIANCE_TYPE_DEHUMIDIFIER),
      LanDevice("S2", "A2", APPLIANCE_TYPE_DEHUMIDIFIER),
      LanDevice("S2", NoAddress, APPLIANCE_TYPE_DEHUMIDIFIER),
      LanDevice("S1", "A2", APPLIANCE_TYPE_AIRCON) }

ScanResults == UNION { [1..n -> ScanDevices] : n \in 1..MaxScan }

\* A DeviceConfig as the config flow stores it
DeviceConf(sn, mode, ip) ==
    [discovery |-> mode, api_version |-> 0, id |-> NoValue, ip_address |-> ip,
     name |-> <<"Midea", sn>>, token_key |-> NoValue, token |-> NoValue,
     type |-> APPLIANCE_TYPE_DEHUMIDIFIER, unique_id |-> sn]

InitConfs ==
    { DeviceConf(sn, DISCOVERY_WAIT, UNKNOWN_IP) : sn \in Serials } \cup
    { DeviceConf(sn, DISCOVERY_LAN, "A1") : sn \in Serials } \cup
    { DeviceConf(sn, DISCOVERY_CLOUD, UNKNOWN_IP) : sn \in Serials } \cup
    { DeviceConf(sn, DISCOVERY_IGNORE, UNKNOWN_IP) : sn \in Serials }

NoDuplicates(confs) ==
    \A i, j \in DOMAIN confs : confs[i].unique_id = confs[j].unique_id => i = j

InitRegistries ==
    { r \in UNION { [1..n -> InitConfs] : n \in 0..Cardinality(Serials) } : NoDuplicates(r) }

\* A step of a config flow: the FlowResult it returns. `raised` stands for an
\* exception that leaves the step.
FlowResult(type, step_id, reason, errors) ==
    [type |-> type, step_id |-> step_id, reason |-> reason, errors |-> errors]
NoResult == FlowResult("none", "", "", "")

\* _MideaFlow.__init__ and MideaConfigFlow.__init__: the fields of a new flow
\* started by `source`. conf holds username, password and include. chosen: the
\* discovery mode the user gave for each appliance ("" where none was asked).
NewFlow(source) ==
    [source |-> source, step |-> "", advanced_settings |-> FALSE,
     username |-> "", password |-> "", include |-> {}, cloud |-> FALSE,
     appliances |-> <<>>, devices_conf |-> <<>>, discovered_appliances |-> <<>>,
     indexes_to_process |-> <<>>, appliance_idx |-> 0, chosen |-> <<>>]
NoFlow == NewFlow("none")

\* A configuration as the redaction reads it. Texts are tuples of characters;
\* <<>> is the empty text, a key that is absent or a value of None.
LoggedConf(username, password, devs) ==
    [username |-> username, password |-> password, devices |-> devs]
EmptyConf == LoggedConf(<<>>, <<>>, <<>>)
\* What a redaction did: the function called, whether an exception left it, and
\* the copy it returned
Redaction(op, raised, conf) == [op |-> op, raised |-> raised, conf |-> conf]
NoRedaction == Redaction("none", FALSE, EmptyConf)

(***************************************************************************)
(* State                                                                   *)
(***************************************************************************)
VARIABLES
    devices,            \* hub.config[CONF_DEVICES]
    coordinators,       \* hub.coordinators: appliance.serial_number, appliance.address
    notifed_addresses,  \* ApplianceDiscoveryHelper.notifed_addresses
    scan,               \* the scan result of the last discovery cycle
    effects,            \* side effects of the last discovery cycle, in order
    pre,                \* registry, coordinators, notified set before the last cycle
    auto_admitted,      \* indices of the configs reconciliation created
    last_op             \* the operation that produced this state

discVars == <<devices, coordinators, notifed_addresses, scan, effects, pre,
              auto_admitted, last_op>>

VARIABLES
    coordinator,        \* the fields of one ApplianceUpdateCoordinator
    hub_cloud,          \* hub.cloud is set (the cloud login was done)
    device_token,       \* coordinator.device[CONF_TOKEN]
    device_ttl,         \* coordinator.device[CONF_TTL], NoTTL when there is none
    now,                \* time.monotonic(), in seconds
    last_refresh,       \* what the last call of _async_appliance_refresh did
    run_start           \* when the current run of consecutive protocol failures
                        \* began, NoRun when the last outcome was a success

coordVars == <<coordinator, hub_cloud, device_token, device_ttl, now, last_refresh,
              run_start>>

VARIABLES
    cycles,             \* the refresh cycles in flight: where each one awaits, and
                        \* the pending map its apply call pushes
    cooldown,           \* the debouncer's cooldown timer is running
    execute_at_end,     \* the debouncer calls the refresh when the timer ends
    writes,             \* the number of calls of async_apply so far
    window,             \* the number of cooldown windows started so far
    pending_window,     \* per pending attribute, the cooldown window its write
                        \* arrived in (NoWindow: no cooldown was running)
    window_pushes       \* per cooldown window, the number of apply calls that
                        \* pushed an attribute written in it

concVars == <<cycles, cooldown, execute_at_end, writes, window, pending_window,
              window_pushes>>

VARIABLES
    broadcast_conf,     \* hub.config[CONF_BROADCAST_ADDRESS]
    scan_interval,      \* hub.config[CONF_SCAN_INTERVAL]
    conf_addresses,     \* ApplianceDiscoveryHelper.conf_addresses
    broadcast_addresses, \* ApplianceDiscoveryHelper.broadcast_addresses
    address_iterator,   \* ApplianceDiscoveryHelper.address_iterator
    remove_discovery,   \* the periodic discovery timer is registered
    scanned,            \* the addresses the last discovery tick scanned
    last_tick,          \* whether the scan of the last tick raised, and whether
                        \* the error left _async_discover
    tick_no,            \* the number of discovery ticks since the last _setup
    setup_non_lan       \* at the last _setup: some config was not in mode lan

scanVars == <<broadcast_conf, scan_interval, conf_addresses, broadcast_addresses,
              address_iterator, remove_discovery, scanned, last_tick, tick_no,
              setup_non_lan>>

VARIABLES
    hub_data,           \* Hub.data[CONF_DEVICES]
    hub_errors,         \* the keys of Hub.errors: the unique ids with a setup error
    updated_conf,       \* Hub.updated_conf
    setup_result,       \* how Hub.async_setup ended: returned or the exception
                        \* that left it; "none" before the call
    attempted,          \* the unique ids _process_appliance was called for
    refresh_failed      \* the first refresh of a coordinator failed

setupVars == <<hub_data, hub_errors, updated_conf, setup_result, attempted,
               refresh_failed>>

VARIABLES
    entries,            \* hass.config_entries: the config entries of the domain
    flow,               \* the fields of the config flow in progress
    flow_result,        \* the FlowResult of the last step of the flow
    last_login,         \* what connect_to_cloud did in the last step of the flow
    reloaded            \* the last step of the flow scheduled a reload of the entry

flowVars == <<entries, flow, flow_result, last_login, reloaded>>

VARIABLES
    live_conf,          \* the configuration that is logged (Hub.data, hub.config)
    given_conf,         \* its value when the last redaction was called
    redaction           \* the last redaction: the function called, whether it
                        \* raised, and the copy it returned

redactVars == <<live_conf, given_conf, redaction>>

VARIABLES
    gen_addresses,      \* the conf_addresses an address generator was created for
    gen_batch_size,     \* its batch_size
    yielded,            \* the batches it has yielded so far, in order
    gen_done            \* the generator has returned (StopIteration)

genVars == <<gen_addresses, gen_batch_size, yielded, gen_done>>

VARIABLES
    timers,             \* the periodic discovery timers registered with hass
    last_call           \* the last call on the discovery helper: start, stop, or
                        \* start_failed for a start() that raised

timerVars == <<timers, last_call>>

\* What the actions of one part of the model leave alone
notDiscVars == <<coordVars, concVars, scanVars, setupVars, flowVars, redactVars, genVars, timerVars>>
notCoordVars == <<discVars, concVars, scanVars, setupVars, flowVars, redactVars, genVars, timerVars>>
notConcVars == <<discVars, device_token, device_ttl, last_refresh, run_start, scanVars,
                 setupVars, flowVars, redactVars, genVars, timerVars>>
notScanVars == <<coordVars, concVars, setupVars, flowVars, redactVars, genVars, timerVars>>
notFlowVars == <<discVars, coordVars, concVars, scanVars, setupVars, redactVars, genVars, timerVars>>
notSetupVars == <<scan, effects, pre, auto_admitted, last_op, coordinator, device_token,
                  device_ttl, now, last_refresh, run_start, concVars, broadcast_conf,
                  scan_interval, conf_addresses, scanned, last_tick, tick_no,
                  setup_non_lan, flowVars, redactVars, genVars, timerVars>>
notRedactVars == <<discVars, coordVars, concVars, scanVars, setupVars, flowVars, genVars, timerVars>>
notGenVars == <<discVars, coordVars, concVars, scanVars, setupVars, flowVars, redactVars, timerVars>>
notTimerVars == <<discVars, coordVars, concVars, scanVars, setupVars, flowVars, redactVars, genVars>>

vars == <<discVars, coordVars, concVars, scanVars, setupVars, flowVars, redactVars, genVars, timerVars>>

(***************************************************************************)
(* Side effects                                                            *)
(***************************************************************************)
Notification(kind, sn) == [op |-> "notify", kind |-> kind, serial |-> sn]
UpdateEntry == [op |-> "update_entry", kind |-> NoValue, serial |-> NoValue]
Reload == [op |-> "reload", kind |-> NoValue, serial |-> NoValue]

(***************************************************************************)
(* util.py                                                                 *)
(***************************************************************************)
\* AirConditionerAppliance.supported / DehumidifierAppliance.supported
TypeCheck(type_id, type) == type = type_id

supported_appliance(included, appliance) ==
    \E type_id \in {APPLIANCE_TYPE_AIRCON, APPLIANCE_TYPE_DEHUMIDIFIER} :
        type_id \in included /\ TypeCheck(type_id, appliance.type)

(***************************************************************************)
(* appliance_discovery.py                                                  *)
(***************************************************************************)
\* next((coord for coord in hub.coordinators if coord.appliance.serial_number
\*       == device.serial_number), None): index of the first one, 0 for None
FindCoordinator(coords, sn) ==
    LET I == { i \in DOMAIN coords : coords[i].serial_number = sn }
    IN  IF I = {} THEN 0 ELSE CHOOSE i \in I : \A j \in I : i <= j

\* _iterate_devices: the devices that go to new_devices
IsNewDevice(coords, device) ==
    /\ device.address # NoAddress
    /\ FindCoordinator(coords, device.serial_number) = 0
    /\ supported_appliance(Include, device)

\* _iterate_devices: the devices that go to changed_devices
IsChangedDevice(coords, device) ==
    /\ device.address # NoAddress
    /\ FindCoordinator(coords, device.serial_number) # 0
    /\ device.address # NoAddress
    /\ device.address # coords[FindCoordinator(coords, device.serial_number)].address

ChangedDevice(coords, device) ==
    [device |-> device, coordinator |-> FindCoordinator(coords, device.serial_number)]

RECURSIVE MapChanged(_, _)
MapChanged(coords, devs) ==
    IF devs = <<>> THEN <<>>
    ELSE <<ChangedDevice(coords, Head(devs))>> \o MapChanged(coords, Tail(devs))

_iterate_devices(coords, found) ==
    [new_devices |-> SelectSeq(found, LAMBDA d : IsNewDevice(coords, d)),
     changed_devices |->
        MapChanged(coords, SelectSeq(found, LAMBDA d : IsChangedDevice(coords, d)))]

\* _possible_lan_notification: the notified set and the notifications created
\* Variant: the notification is created without looking at the addresses
\* already notified
_possible_lan_notification_always(sn, address, notified) ==
    [notified |-> notified \cup {address},
     effects |-> <<Notification("midea_non_lan_discovery", sn)>>]

_possible_lan_notification(sn, address, notified) ==
    IF address \notin notified
    THEN [notified |-> notified \cup {address},
          effects |-> <<Notification("midea_non_lan_discovery", sn)>>]
    ELSE [notified |-> notified, effects |-> <<>>]

\* _admitted_known_device: the config after the call, the returned need_reload,
\* the notified set and the notifications created
\* Variant: every config that is not in mode lan is promoted
_admitted_known_device_promotes_any(known, new, notified) ==
    IF known.unique_id = new.serial_number
    THEN IF known.discovery # DISCOVERY_LAN
         THEN [known |-> [known EXCEPT !.discovery = DISCOVERY_LAN,
                                       !.api_version = new.version,
                                       !.id = new.appliance_id,
                                       !.ip_address = new.address,
                                       !.token_key = new.key,
                                       !.token = new.token,
                                       !.type = new.type,
                                       !.unique_id = new.serial_number],
               need_reload |-> TRUE,
               notified |-> notified,
               effects |-> <<Notification("midea_wait_discovery", new.serial_number)>>]
         ELSE IF new.address # NoAddress /\ known.discovery # DISCOVERY_LAN
         THEN [known |-> known, need_reload |-> FALSE,
               notified |->
                 _possible_lan_notification(new.serial_number, new.address, notified).notified,
               effects |->
                 _possible_lan_notification(new.serial_number, new.address, notified).effects]
         ELSE [known |-> known, need_reload |-> FALSE, notified |-> notified,
               effects |-> <<>>]
    ELSE [known |-> known, need_reload |-> FALSE, notified |-> notified, effects |-> <<>>]

_admitted_known_device(known, new, notified) ==
    IF known.unique_id = new.serial_number
    THEN IF known.discovery = DISCOVERY_WAIT
         THEN [known |-> [known EXCEPT !.discovery = DISCOVERY_LAN,
                                       !.api_version = new.version,
                                       !.id = new.appliance_id,
                                       !.ip_address = new.address,
                                       !.token_key = new.key,
                                       !.token = new.token,
                                       !.type = new.type,
                                       !.unique_id = new.serial_number],
               need_reload |-> TRUE,
               notified |-> notified,
               effects |-> <<Notification("midea_wait_discovery", new.serial_number)>>]
         ELSE IF new.address # NoAddress /\ known.discovery # DISCOVERY_LAN
         THEN [known |-> known, need_reload |-> FALSE,
               notified |->
                 _possible_lan_notification(new.serial_number, new.address, notified).notified,
               effects |->
                 _possible_lan_notification(new.serial_number, new.address, notified).effects]
         ELSE [known |-> known, need_reload |-> FALSE, notified |-> notified,
               effects |-> <<>>]
    ELSE [known |-> known, need_reload |-> FALSE, notified |-> notified, effects |-> <<>>]

\* name = f"{new.model} {new.mac[-4] if new.mac else new.serial_number}"
UnknownDeviceName(new) ==
    <<new.model, IF new.mac # <<>> THEN new.mac[Len(new.mac) - 3] ELSE new.serial_number>>

\* _admit_not_known_device: the new config and the notification created
\* Variant: the new config gets the default discovery mode instead of ignore
_admit_not_known_device_default_mode(new) ==
    [conf |-> [discovery |-> DISCOVERY_LAN,
               api_version |-> new.version,
               id |-> new.appliance_id,
               ip_address |-> new.address,
               name |-> UnknownDeviceName(new),
               token_key |-> new.key,
               token |-> new.token,
               type |-> new.type,
               unique_id |-> new.serial_number],
     effects |-> <<Notification("midea_unknown", new.serial_number)>>]

_admit_not_known_device(new) ==
    [conf |-> [discovery |-> DISCOVERY_IGNORE,
               api_version |-> new.version,
               id |-> new.appliance_id,
               ip_address |-> new.address,
               name |-> UnknownDeviceName(new),
               token_key |-> new.key,
               token |-> new.token,
               type |-> new.type,
               unique_id |-> new.serial_number],
     effects |-> <<Notification("midea_unknown", new.serial_number)>>]

\* The inner loop of _admit_new, `for known in dev_confs: ...; break`: the index
\* of the config at which the loop breaks, 0 when it ends without a break
\* (the for-else branch). The break is not under the if, so the loop leaves at
\* the first config whatever its serial number is.
AdmitNewBreakIndex(dev_confs, new) == IF Len(dev_confs) > 0 THEN 1 ELSE 0

\* One iteration of the outer loop of _admit_new
AdmitNewStep(st, new) ==
    LET k == AdmitNewBreakIndex(st.dev_confs, new)
    IN  IF k # 0
        THEN LET r == _admitted_known_device(st.dev_confs[k], new, st.notified)
             IN  [dev_confs |-> [st.dev_confs EXCEPT ![k] = r.known],
                  added_devices |-> st.added_devices,
                  need_reload |-> st.need_reload \/ r.need_reload,
                  notified |-> r.notified,
                  effects |-> st.effects \o r.effects]
        ELSE LET r == _admit_not_known_device(new)
             IN  [dev_confs |-> st.dev_confs,
                  added_devices |-> Append(st.added_devices, r.conf),
                  need_reload |-> TRUE,
                  notified |-> st.notified,
                  effects |-> st.effects \o r.effects]

RECURSIVE AdmitNewLoop(_, _)
AdmitNewLoop(st, news) ==
    IF news = <<>> THEN st ELSE AdmitNewLoop(AdmitNewStep(st, Head(news)), Tail(news))

\* _admit_new: the registry, need_reload, notified set and notifications after it
_admit_new(dev_confs, news, notified) ==
    LET st == AdmitNewLoop([dev_confs |-> dev_confs, added_devices |-> <<>>,
                            need_reload |-> FALSE, notified |-> notified,
                            effects |-> <<>>], news)
    IN  [dev_confs |-> st.dev_confs \o st.added_devices,
         added |-> Len(st.added_devices),
         need_reload |-> st.need_reload,
         notified |-> st.notified,
         effects |-> st.effects]

\* The inner loop of _merge_with_configuration: the first config whose unique id
\* is the coordinator's serial number, 0 when there is none
FindKnown(dev_confs, sn) ==
    LET I == { i \in DOMAIN dev_confs : dev_confs[i].unique_id = sn }
    IN  IF I = {} THEN 0 ELSE CHOOSE i \in I : \A j \in I : i <= j

\* One iteration of the outer loop of _merge_with_configuration
\* Variant: the address is stored in the config only, the coordinator keeps its
\* cached address
MergeStepConfigOnly(st, changed) ==
    LET sn == st.coords[changed.coordinator].serial_number
        k == FindKnown(st.dev_confs, sn)
        device == changed.device
    IN  IF k = 0 THEN st
        ELSE LET n == IF device.address # NoAddress
                         /\ st.dev_confs[k].discovery # DISCOVERY_LAN
                      THEN _possible_lan_notification(sn, device.address, st.notified)
                      ELSE [notified |-> st.notified, effects |-> <<>>]
             IN  [dev_confs |-> [st.dev_confs EXCEPT ![k].ip_address = device.address],
                  coords |-> st.coords,
                  updated_conf |-> TRUE,
                  notified |-> n.notified,
                  effects |-> st.effects \o n.effects]

MergeStep(st, changed) ==
    LET sn == st.coords[changed.coordinator].serial_number
        k == FindKnown(st.dev_confs, sn)
        device == changed.device
    IN  IF k = 0 THEN st
        ELSE LET n == IF device.address # NoAddress
                         /\ st.dev_confs[k].discovery # DISCOVERY_LAN
                      THEN _possible_lan_notification(sn, device.address, st.notified)
                      ELSE [notified |-> st.notified, effects |-> <<>>]
             IN  [dev_confs |-> [st.dev_confs EXCEPT ![k].ip_address = device.address],
                  coords |-> [st.coords EXCEPT ![changed.coordinator].address = device.address],
                  updated_conf |-> TRUE,
                  notified |-> n.notified,
                  effects |-> st.effects \o n.effects]

RECURSIVE MergeLoop(_, _)
MergeLoop(st, changes) ==
    IF changes = <<>> THEN st ELSE MergeLoop(MergeStep(st, Head(changes)), Tail(changes))

\* _merge_with_configuration
_merge_with_configuration(dev_confs, coords, changes, notified) ==
    MergeLoop([dev_confs |-> dev_confs, coords |-> coords, updated_conf |-> FALSE,
               notified |-> notified, effects |-> <<>>], changes)

\* The tail of _async_run_discovery: async_update_entry, then async_reload
\* Variant: the entry is reloaded whenever it is updated
EntryEffectsReloadOnChange(devices_changed, need_reload) ==
    (IF devices_changed \/ need_reload THEN <<UpdateEntry, Reload>> ELSE <<>>)

EntryEffects(devices_changed, need_reload) ==
    (IF devices_changed \/ need_reload THEN <<UpdateEntry>> ELSE <<>>)
    \o (IF need_reload THEN <<Reload>> ELSE <<>>)

\* _async_run_discovery after both passes: the state and the side effects
DiscoveryResult(it, ad, mg) ==
    [devices |-> mg.dev_confs,
     coordinators |-> mg.coords,
     notified |-> mg.notified,
     new_devices |-> it.new_devices,
     changed_devices |-> it.changed_devices,
     added |-> ad.added,
     need_reload |-> ad.need_reload,
     devices_changed |-> mg.updated_conf,
     effects |-> ad.effects \o mg.effects
                 \o EntryEffects(mg.updated_conf, ad.need_reload)]

\* _async_run_discovery after _admit_new
AfterAdmitNew(coords, it, ad) ==
    DiscoveryResult(it, ad,
        _merge_with_configuration(ad.dev_confs, coords, it.changed_devices, ad.notified))

\* _async_run_discovery after _iterate_devices
AfterIterateDevices(dev_confs, coords, notified, it) ==
    AfterAdmitNew(coords, it, _admit_new(dev_confs, it.new_devices, notified))

\* _async_run_discovery as a function of the state before it and the scan result
RunDiscovery(dev_confs, coords, notified, found) ==
    AfterIterateDevices(dev_confs, coords, notified, _iterate_devices(coords, found))

(***************************************************************************)
(* hub.py: entry setup                                                     *)
(***************************************************************************)
\* _process_appliance / _create_coordinator: the coordinator of a config, for
\* the configs that get one (ignored and waiting appliances get none)
HasCoordinator(device) ==
    device.discovery \notin {DISCOVERY_IGNORE, DISCOVERY_WAIT}

Coordinator(device) ==
    [serial_number |-> device.unique_id,
     address |-> IF device.discovery = DISCOVERY_LAN THEN device.ip_address
                 ELSE NoAddress]

\* Hub.async_setup on a new Hub: one coordinator for every config whose
\* appliance_state call succeeded (ok: the indices where it did)
RECURSIVE SetupCoordinators(_, _, _)
SetupCoordinators(dev_confs, ok, i) ==
    IF i > Len(dev_confs) THEN <<>>
    ELSE (IF HasCoordinator(dev_confs[i]) /\ i \in ok
          THEN <<Coordinator(dev_confs[i])>> ELSE <<>>)
         \o SetupCoordinators(dev_confs, ok, i + 1)


(***************************************************************************)
(* appliance_discovery.py: the addresses a discovery tick scans            *)
(***************************************************************************)
\* ipaddress.IPv4Network(addr).num_addresses for the configured values: two
\* network blocks, and single addresses
Block25 == "10.0.0.0/25"
Block24 == "10.0.1.0/24"
Block29 == "10.0.2.0/29"
Block30 == "10.0.3.0/30"
NumAddresses(addr) ==
    IF addr = Block25 THEN 2 * DISCOVERY_BATCH_SIZE
    ELSE IF addr = Block24 THEN 4 * DISCOVERY_BATCH_SIZE
    ELSE IF addr = Block29 THEN 8
    ELSE IF addr = Block30 THEN 4
    ELSE 1

\* An address: of a network, its k-th address
Host(addr, k) == [net |-> addr, host |-> k]

\* list(IPv4Network(addr).hosts())
Hosts(addr) ==
    IF NumAddresses(addr) = 1 THEN <<Host(addr, 0)>>
    ELSE [k \in 1..(NumAddresses(addr) - 2) |-> Host(addr, k)]

\* IPv4Network(addr).broadcast_address
BroadcastAddress(addr) == Host(addr, NumAddresses(addr) - 1)

\* util.address_ok
address_ok(address) == address # NoAddress /\ address # UNKNOWN_IP

\* _add_if_discoverable: the list after the call. The function has no return
\* statement: its result is None, which _setup reads as false.
_add_if_discoverable(addresses, device) ==
    IF device.discovery # DISCOVERY_LAN /\ address_ok(device.ip_address)
    THEN Append(addresses, device.ip_address)
    ELSE addresses
AddIfDiscoverableResult == FALSE

RECURSIVE AddDiscoverable(_, _, _)
AddDiscoverable(addresses, confs, i) ==
    IF i > Len(confs) THEN addresses
    ELSE AddDiscoverable(_add_if_discoverable(addresses, confs[i]), confs, i + 1)

RECURSIVE FlagDiscoverable(_, _, _)
FlagDiscoverable(has_discoverable, confs, i) ==
    IF i > Len(confs) THEN has_discoverable
    ELSE FlagDiscoverable(IF AddIfDiscoverableResult THEN TRUE ELSE has_discoverable,
                          confs, i + 1)

\* The items of seq that satisfy Keep, in order
RECURSIVE SelectItems(_, _, _)
SelectItems(seq, Keep(_), i) ==
    IF i > Len(seq) THEN <<>>
    ELSE (IF Keep(seq[i]) THEN <<seq[i]>> ELSE <<>>) \o SelectItems(seq, Keep, i + 1)

RECURSIVE Flatten(_)
Flatten(seqs) == IF seqs = <<>> THEN <<>> ELSE Head(seqs) \o Flatten(Tail(seqs))

RECURSIVE SumOf(_)
SumOf(ns) == IF ns = <<>> THEN 0 ELSE Head(ns) + SumOf(Tail(ns))

\* _address_generator: the network blocks among the configured addresses
IsBlock(addr) == addr # LOCAL_BROADCAST /\ NumAddresses(addr) > 1
Blocks(addresses) == SelectItems(addresses, IsBlock, 1)

\* _address_generator: every batch it yields, in order
Batches(addresses, batch_size) ==
    LET blocks == Blocks(addresses)
        all_addrs == Flatten([i \in DOMAIN blocks |-> Hosts(blocks[i])])
        addr_count == SumOf([i \in DOMAIN blocks |-> NumAddresses(blocks[i])])
        count == (addr_count + batch_size - 1) \div batch_size
        Upto(n) == IF n < Len(all_addrs) THEN n ELSE Len(all_addrs)
    IN  [b \in 1..count |->
            SubSeq(all_addrs, Upto((b - 1) * batch_size) + 1, Upto(b * batch_size))]

\* The address iterator: empty_address_iterator(), or
\* itertools.cycle(_address_generator()) whose next batch is the one after
\* batch `at`
EmptyIterator == [kind |-> "empty", at |-> 0]
CycleIterator == [kind |-> "cycle", at |-> 0]

\* next(self.address_iterator, None): the batch (empty for None) and the
\* iterator afterwards. cycle() starts again with the first batch after the
\* last one.
NextBatch(iterator, addresses) ==
    LET batches == Batches(addresses, DISCOVERY_BATCH_SIZE)
    IN  IF iterator.kind = "empty" \/ Len(batches) = 0
        THEN [batch |-> <<>>, iterator |-> iterator]
        ELSE [batch |-> batches[iterator.at + 1],
              iterator |-> [iterator EXCEPT !.at = (@ + 1) % Len(batches)]]

\* _setup: conf_addresses, broadcast_addresses and the address iterator.
\* unavailable: the configs of the coordinators that are not available
NotLocalBroadcast(item) == item # NoAddress /\ item # LOCAL_BROADCAST
ListBroadcastAddresses(seq) == [i \in DOMAIN seq |-> BroadcastAddress(seq[i])]
\* An address with host bits set: ipaddress.IPv4Network(addr) raises ValueError
BadNetwork == "10.0.0.5/24"
\* The addresses before the first one that IPv4Network refuses
RECURSIVE ValidPrefix(_)
ValidPrefix(seq) ==
    IF seq = <<>> \/ Head(seq) = BadNetwork THEN <<>>
    ELSE <<Head(seq)>> \o ValidPrefix(Tail(seq))
\* raised: ValueError left _setup, before the address iterator was assigned
_setup(dev_confs, unavailable, broadcast) ==
    LET addresses == AddDiscoverable(AddDiscoverable(<<>>, dev_confs, 1), unavailable, 1)
                     \o SelectItems(broadcast, NotLocalBroadcast, 1)
        has_discoverable ==
            FlagDiscoverable(FlagDiscoverable(FALSE, dev_confs, 1), unavailable, 1)
    IN  [conf_addresses |-> addresses,
         broadcast_addresses |->
            <<Host(LOCAL_BROADCAST, 0)>> \o ListBroadcastAddresses(ValidPrefix(addresses)),
         address_iterator |->
            IF has_discoverable /\ addresses # <<>> THEN CycleIterator ELSE EmptyIterator,
         raised |-> ValidPrefix(addresses) # addresses]

\* _async_discover: the addresses handed to the scan; the broadcast addresses of
\* the host's interfaces when there is nothing else
InterfaceBroadcast == <<Host("interface", 0)>>
ScanAddresses(broadcast, batch) ==
    IF broadcast \o batch = <<>> THEN InterfaceBroadcast ELSE broadcast \o batch

\* What a tick did: the scan raised an error, the error left _async_discover
TickOutcome(scan_error, raised) == [scan_error |-> scan_error, raised |-> raised]
NoTick == TickOutcome(FALSE, FALSE)

(***************************************************************************)
(* appliance_coordinator.py: ApplianceUpdateCoordinator                    *)
(***************************************************************************)
\* The attributes entities write, and their values
Attrs == {"running", "fan_speed"}
Values == {"v1", "v2"}
\* An attribute that is not in the pending map
Unset == "unset"
NoPending == [a \in Attrs |-> Unset]
\* Every non-empty dict of attribute values
ApplyArgs == [Attrs -> Values \cup {Unset}] \ {NoPending}

\* The callers of _async_appliance_refresh: the scheduled tick (update_interval)
\* and the debouncer of async_request_refresh
Cycles == {"tick", "request"}

\* A cycle: where it awaits ("idle" when it is not running, "detect" in
\* _async_try_to_detect, "apply" in appliance.apply, "refresh" in
\* appliance.refresh) and the pending map its apply call pushes
Cycle(at, push) == [pc |-> at, push |-> push]
IdleCycle == Cycle("idle", NoPending)

\* A write that arrived while no cooldown was running
NoWindow == 0

\* The coordinator after __init__
NewCoordinator(avail, ttl, cloud_mode) ==
    [available |-> avail,
     updating |-> NoPending,
     wait_for_update |-> FALSE,
     use_cloud |-> cloud_mode,
     time_to_leave |-> ttl,
     has_failure |-> FALSE,
     first_failure_time |-> 0]

\* _cloud raises UpdateFailed: cloud mode and hub.cloud is not set
CloudMissing(c, cloud) == c.use_cloud /\ ~cloud

\* What one call did: `raised` for UpdateFailed leaving the call, `error` for the
\* exception met ("MideaError", "cloud" for _cloud's UpdateFailed, "not_found"
\* for a failed detection), `detect` when hub.async_discover_device was called,
\* `applied` / `refreshed` when appliance.apply / appliance.refresh were called
Outcome(raised, error, detect, applied, refreshed) ==
    [raised |-> raised, error |-> error, detect |-> detect, applied |-> applied,
     refreshed |-> refreshed]
NoOutcome == Outcome(FALSE, "none", FALSE, FALSE, FALSE)

\* device.get(CONF_TTL, 100), in seconds
NoTTL == -1
TimeToLeave(ttl) == IF ttl = NoTTL THEN 100 ELSE ttl

\* ApplianceUpdateCoordinator.__init__ for a device config whose ttl is `ttl`
ApplianceUpdateCoordinatorInit(avail, ttl, cloud_mode) ==
    NewCoordinator(avail, TimeToLeave(ttl), cloud_mode)

\* The call raised UpdateFailed because the time to leave had passed
TimeToLeaveExceeded(out) == out.error = "MideaError" /\ out.raised

\* The record of a call: what it did, the clock at the call, and whether the
\* call before it had raised for the time to leave
Called(out, t, after_ttl) == [call |-> out, time |-> t, after_ttl |-> after_ttl]
NoCall == Called(NoOutcome, 0, FALSE)

\* The except MideaError clause and the finally clause of _async_appliance_refresh
\* Variant: UpdateFailed only once more than the time to leave has passed
OnMideaErrorPastTimeToLeave(c, t, detect, applied, refreshed) ==
    LET first == IF c.has_failure THEN c.first_failure_time ELSE t
    IN  [c |-> [c EXCEPT !.has_failure = TRUE,
                         !.first_failure_time = first,
                         !.wait_for_update = FALSE],
         out |-> Outcome((t - first) > c.time_to_leave, "MideaError", detect,
                         applied, refreshed)]

OnMideaError(c, t, detect, applied, refreshed) ==
    LET first == IF c.has_failure THEN c.first_failure_time ELSE t
    IN  [c |-> [c EXCEPT !.has_failure = TRUE,
                         !.first_failure_time = first,
                         !.wait_for_update = FALSE],
         out |-> Outcome((t - first) >= c.time_to_leave, "MideaError", detect,
                         applied, refreshed)]

\* The call of appliance.refresh and what follows it
\* Variant: the missing cloud handle is handled like a protocol error
RefreshApplianceCloudAsMideaError(c, t, cloud, refresh_ok, detect, applied) ==
    IF CloudMissing(c, cloud) \/ ~refresh_ok
    THEN OnMideaError(c, t, detect, applied, ~CloudMissing(c, cloud))
    ELSE [c |-> [c EXCEPT !.has_failure = FALSE, !.wait_for_update = FALSE],
          out |-> Outcome(FALSE, "none", detect, applied, TRUE)]

RefreshAppliance(c, t, cloud, refresh_ok, detect, applied) ==
    IF CloudMissing(c, cloud)
    THEN [c |-> [c EXCEPT !.wait_for_update = FALSE],
          out |-> Outcome(TRUE, "cloud", detect, applied, FALSE)]
    ELSE IF ~refresh_ok
    THEN OnMideaError(c, t, detect, applied, TRUE)
    ELSE [c |-> [c EXCEPT !.has_failure = FALSE, !.wait_for_update = FALSE],
          out |-> Outcome(FALSE, "none", detect, applied, TRUE)]

\* The try block of _async_appliance_refresh, _async_do_update included
TryRefresh(c, t, cloud, apply_ok, refresh_ok, detect) ==
    IF c.updating # NoPending
    THEN LET u == [c EXCEPT !.wait_for_update = TRUE, !.updating = NoPending]
         IN  IF CloudMissing(u, cloud)
             THEN [c |-> [u EXCEPT !.wait_for_update = FALSE],
                   out |-> Outcome(TRUE, "cloud", detect, FALSE, FALSE)]
             ELSE IF ~apply_ok
             THEN OnMideaError(u, t, detect, TRUE, FALSE)
             ELSE RefreshAppliance(u, t, cloud, refresh_ok, detect, TRUE)
    ELSE RefreshAppliance(c, t, cloud, refresh_ok, detect, FALSE)

\* _async_appliance_refresh after the detection: the guard flag, then the try block
AfterDetect(c, t, cloud, apply_ok, refresh_ok, detect) ==
    IF c.wait_for_update
    THEN [c |-> c, out |-> Outcome(FALSE, "none", detect, FALSE, FALSE)]
    ELSE TryRefresh(c, t, cloud, apply_ok, refresh_ok, detect)

\* _async_appliance_refresh: the coordinator after the call and what the call
\* did. found: hub.async_discover_device returned an appliance; apply_ok,
\* refresh_ok: the device calls did not raise MideaError.
\* Variant: a detection that finds nothing is passed over, the call goes on
_async_appliance_refresh_detect_passed(c, t, cloud, found, apply_ok, refresh_ok) ==
    AfterDetect(c, t, cloud, apply_ok, refresh_ok, ~c.available)

_async_appliance_refresh(c, t, cloud, found, apply_ok, refresh_ok) ==
    IF ~c.available
    THEN IF ~found
         THEN [c |-> c, out |-> Outcome(TRUE, "not_found", TRUE, FALSE, FALSE)]
         ELSE AfterDetect([c EXCEPT !.available = TRUE], t, cloud, apply_ok,
                          refresh_ok, TRUE)
    ELSE AfterDetect(c, t, cloud, apply_ok, refresh_ok, FALSE)

\* async_apply: the pending map after `self.updating[key] = value` for every item
MergeArgs(updating, args) ==
    [a \in Attrs |-> IF args[a] # Unset THEN args[a] ELSE updating[a]]

\* The run of consecutive protocol failures after a call: it starts at the first
\* MideaError, a call that succeeded ends it
NoRun == -1
RunAfter(run, out, t) ==
    IF out.error = "MideaError" THEN (IF run = NoRun THEN t ELSE run)
    ELSE IF out.error = "none" /\ out.refreshed THEN NoRun
    ELSE run

\* The state after construction: one coordinator, no discovery running
InitCoord ==
    /\ device_ttl \in (1..MaxTTL) \cup {NoTTL}
    /\ coordinator \in { ApplianceUpdateCoordinatorInit(avail, device_ttl, cloud_mode) :
            avail \in BOOLEAN, cloud_mode \in BOOLEAN }
    /\ hub_cloud \in BOOLEAN
    /\ device_token \in {NoValue, "token"}
    /\ now = 0
    /\ last_refresh = NoCall
    /\ run_start = NoRun
    /\ devices = <<>>
    /\ coordinators = <<>>
    /\ notifed_addresses = {}
    /\ scan = <<>>
    /\ effects = <<>>
    /\ pre = [devices |-> <<>>, coordinators |-> <<>>, notified |-> {}]
    /\ auto_admitted = {}
    /\ last_op = "init"
    /\ cycles = [p \in Cycles |-> IdleCycle]
    /\ cooldown = FALSE
    /\ execute_at_end = FALSE
    /\ writes = 0
    /\ window = 0
    /\ pending_window = [a \in Attrs |-> NoWindow]
    /\ window_pushes = [w \in 1..MaxWrites |-> 0]
    /\ broadcast_conf = <<>>
    /\ scan_interval = DEFAULT_SCAN_INTERVAL
    /\ conf_addresses = <<>>
    /\ broadcast_addresses = <<>>
    /\ address_iterator = EmptyIterator
    /\ remove_discovery = FALSE
    /\ scanned = <<>>
    /\ last_tick = NoTick
    /\ tick_no = 0
    /\ setup_non_lan = FALSE
    /\ hub_data = <<>>
    /\ hub_errors = {}
    /\ updated_conf = FALSE
    /\ setup_result = "none"
    /\ attempted = {}
    /\ refresh_failed = FALSE
    /\ entries = <<>>
    /\ flow = NoFlow
    /\ flow_result = NoResult
    /\ last_login = "none"
    /\ reloaded = FALSE
    /\ live_conf = EmptyConf
    /\ given_conf = EmptyConf
    /\ redaction = NoRedaction
    /\ gen_addresses = <<>>
    /\ gen_batch_size = DISCOVERY_BATCH_SIZE
    /\ yielded = <<>>
    /\ gen_done = FALSE
    /\ timers = 0
    /\ last_call = "none"

\* The clock advances
Tick ==
    /\ now < MaxTime
    /\ now' = now + 1
    /\ UNCHANGED <<coordinator, hub_cloud, device_token, device_ttl, last_refresh,
                   run_start>>
    /\ UNCHANGED notCoordVars

\* One call of _async_appliance_refresh on coordinator c
RefreshCall(c) ==
    \E found, need_token, apply_ok, refresh_ok \in BOOLEAN :
        \E r \in {_async_appliance_refresh(c, now, hub_cloud, found, apply_ok,
                                           refresh_ok)} :
            /\ coordinator' = r.c
            /\ last_refresh' = Called(r.out, now, TimeToLeaveExceeded(last_refresh.call))
            /\ run_start' = RunAfter(run_start, r.out, now)
            /\ device_token' = IF r.out.detect /\ found /\ need_token
                               THEN "token" ELSE device_token
            /\ UNCHANGED <<hub_cloud, device_ttl, now>>

\* A refresh tick of the DataUpdateCoordinator (update_interval)
Refresh == RefreshCall(coordinator) /\ UNCHANGED notCoordVars

\* async_apply: the attributes join the pending map, then async_request_refresh:
\* the debouncer (immediate=True) calls the refresh at once, or, within its
\* cooldown, leaves it to a later call
AsyncApply ==
    /\ \E args \in ApplyArgs :
        \/ RefreshCall([coordinator EXCEPT !.updating = MergeArgs(@, args)])
        \/ /\ coordinator' = [coordinator EXCEPT !.updating = MergeArgs(@, args)]
           /\ UNCHANGED <<hub_cloud, device_token, device_ttl, now, last_refresh,
                          run_start>>
    /\ UNCHANGED notCoordVars

\* The cloud login of the hub succeeds
CloudLogin ==
    /\ ~hub_cloud
    /\ hub_cloud' = TRUE
    /\ UNCHANGED <<coordinator, device_token, device_ttl, now, last_refresh,
                   run_start>>
    /\ UNCHANGED notCoordVars

NextCoord == Tick \/ Refresh \/ AsyncApply \/ CloudLogin

(***************************************************************************)
(* Overlapping refresh cycles of one coordinator                           *)
(***************************************************************************)
\* The step of a cycle up to its next await: the coordinator after it and the
\* cycle's new position
Step(c, cycle) == [c |-> c, cycle |-> cycle]

\* The finally clause: the guard flag is cleared
\* Variant: the clause leaves the guard flag as it is
FinallyKeepsGuard(c) == c

Finally(c) == [c EXCEPT !.wait_for_update = FALSE]

\* _async_appliance_refresh from the check of the guard flag to the first await:
\* an early return, or _async_do_update up to the await of appliance.apply, or the
\* await of appliance.refresh
EnterTry(c, cloud) ==
    IF c.wait_for_update
    THEN Step(c, IdleCycle)
    ELSE IF c.updating # NoPending
    THEN LET u == [c EXCEPT !.wait_for_update = TRUE, !.updating = NoPending]
         IN  IF CloudMissing(u, cloud)
             THEN Step(Finally(u), IdleCycle)
             ELSE Step(u, Cycle("apply", c.updating))
    ELSE IF CloudMissing(c, cloud)
    THEN Step(Finally(c), IdleCycle)
    ELSE Step(c, Cycle("refresh", NoPending))

\* _async_appliance_refresh from its start to the first await
BeginCycle(c, cloud) ==
    IF ~c.available THEN Step(c, Cycle("detect", NoPending)) ELSE EnterTry(c, cloud)

\* _async_try_to_detect after its awaits: UpdateFailed when nothing was found,
\* else the coordinator is available and the call goes on
DetectDone(c, cloud, found) ==
    IF ~found THEN Step(c, IdleCycle)
    ELSE EnterTry([c EXCEPT !.available = TRUE], cloud)

\* After the await of appliance.apply
ApplyDone(c, t, cloud, apply_ok) ==
    IF ~apply_ok THEN Step(OnMideaError(c, t, FALSE, TRUE, FALSE).c, IdleCycle)
    ELSE IF CloudMissing(c, cloud) THEN Step(Finally(c), IdleCycle)
    ELSE Step(c, Cycle("refresh", NoPending))

\* After the await of appliance.refresh
RefreshDone(c, t, refresh_ok) ==
    IF ~refresh_ok THEN Step(OnMideaError(c, t, FALSE, FALSE, TRUE).c, IdleCycle)
    ELSE Step([Finally(c) EXCEPT !.has_failure = FALSE], IdleCycle)

\* The state after construction: one coordinator, no cycle running
InitConc ==
    /\ device_ttl \in 1..MaxTTL
    /\ coordinator \in { ApplianceUpdateCoordinatorInit(avail, device_ttl, cloud_mode) :
            avail \in BOOLEAN, cloud_mode \in BOOLEAN }
    /\ hub_cloud \in BOOLEAN
    /\ device_token = NoValue
    /\ now = 0
    /\ last_refresh = NoCall
    /\ run_start = NoRun
    /\ cycles = [p \in Cycles |-> IdleCycle]
    /\ cooldown = FALSE
    /\ execute_at_end = FALSE
    /\ writes = 0
    /\ window = 0
    /\ pending_window = [a \in Attrs |-> NoWindow]
    /\ window_pushes = [w \in 1..MaxWrites |-> 0]
    /\ broadcast_conf = <<>>
    /\ scan_interval = DEFAULT_SCAN_INTERVAL
    /\ conf_addresses = <<>>
    /\ broadcast_addresses = <<>>
    /\ address_iterator = EmptyIterator
    /\ remove_discovery = FALSE
    /\ scanned = <<>>
    /\ last_tick = NoTick
    /\ tick_no = 0
    /\ setup_non_lan = FALSE
    /\ hub_data = <<>>
    /\ hub_errors = {}
    /\ updated_conf = FALSE
    /\ setup_result = "none"
    /\ attempted = {}
    /\ refresh_failed = FALSE
    /\ entries = <<>>
    /\ flow = NoFlow
    /\ flow_result = NoResult
    /\ last_login = "none"
    /\ reloaded = FALSE
    /\ live_conf = EmptyConf
    /\ given_conf = EmptyConf
    /\ redaction = NoRedaction
    /\ gen_addresses = <<>>
    /\ gen_batch_size = DISCOVERY_BATCH_SIZE
    /\ yielded = <<>>
    /\ gen_done = FALSE
    /\ timers = 0
    /\ last_call = "none"
    /\ devices = <<>>
    /\ coordinators = <<>>
    /\ notifed_addresses = {}
    /\ scan = <<>>
    /\ effects = <<>>
    /\ pre = [devices |-> <<>>, coordinators |-> <<>>, notified |-> {}]
    /\ auto_admitted = {}
    /\ last_op = "init"

\* The cooldown windows whose writes the pending map holds
PushedWindows(updating, tags) ==
    { tags[a] : a \in { x \in Attrs : updating[x] # Unset } } \ {NoWindow}

\* The record of the writes after a step of a cycle: the tags go with the
\* pending map, and an apply call that begins counts for every window it pushes
TagsAfter(tags, r) == IF r.c.updating = NoPending THEN [a \in Attrs |-> NoWindow] ELSE tags
PushesAfter(pushes, updating, tags, r) ==
    IF r.cycle.pc = "apply"
    THEN [w \in DOMAIN pushes |->
            IF w \in PushedWindows(updating, tags) /\ pushes[w] < 2
            THEN pushes[w] + 1 ELSE pushes[w]]
    ELSE pushes

\* A step of cycle p, begun on coordinator c with the tags given, has run up to
\* its next await, or to its end. The debouncer starts its cooldown timer when
\* the refresh it called has returned.
Advance(p, c, tags, r) ==
    /\ coordinator' = r.c
    /\ cycles' = [cycles EXCEPT ![p] = r.cycle]
    /\ pending_window' = TagsAfter(tags, r)
    /\ window_pushes' = PushesAfter(window_pushes, c.updating, tags, r)
    /\ IF p = "request" /\ r.cycle.pc = "idle"
       THEN cooldown' = TRUE /\ window' = window + 1
       ELSE UNCHANGED <<cooldown, window>>

\* The scheduled tick: the refresh cancels the debouncer, then calls
\* _async_appliance_refresh
ScheduledRefresh ==
    /\ cycles["tick"].pc = "idle"
    /\ \E r \in {BeginCycle(coordinator, hub_cloud)} :
        /\ coordinator' = r.c
        /\ cycles' = [cycles EXCEPT !["tick"] = r.cycle]
        /\ pending_window' = TagsAfter(pending_window, r)
        /\ window_pushes' = PushesAfter(window_pushes, coordinator.updating,
                                        pending_window, r)
    /\ cooldown' = FALSE
    /\ execute_at_end' = FALSE
    /\ UNCHANGED <<hub_cloud, now, writes, window>>
    /\ UNCHANGED notConcVars

\* async_apply: the attributes join the pending map, then async_request_refresh
\* asks the debouncer (immediate=True): during the cooldown the call is left to
\* the end of the timer; while a call of the debouncer is running nothing is
\* done; else the refresh is called at once
RequestApply ==
    /\ writes < MaxWrites
    /\ writes' = writes + 1
    /\ \E args \in ApplyArgs :
        \E c \in {[coordinator EXCEPT !.updating = MergeArgs(@, args)]} :
        \E tags \in {[a \in Attrs |-> IF args[a] = Unset THEN pending_window[a]
                                      ELSE IF cooldown THEN window ELSE NoWindow]} :
            IF cooldown
            THEN /\ coordinator' = c
                 /\ pending_window' = tags
                 /\ execute_at_end' = TRUE
                 /\ UNCHANGED <<cycles, cooldown, window, window_pushes>>
            ELSE IF cycles["request"].pc # "idle"
            THEN /\ coordinator' = c
                 /\ pending_window' = tags
                 /\ UNCHANGED <<cycles, cooldown, execute_at_end, window, window_pushes>>
            ELSE /\ Advance("request", c, tags, BeginCycle(c, hub_cloud))
                 /\ execute_at_end' = FALSE
    /\ UNCHANGED <<hub_cloud, now>>
    /\ UNCHANGED notConcVars

\* The cooldown timer of the debouncer ends: the refresh is called if a request
\* came during the cooldown
TimerFinish ==
    /\ cooldown
    /\ IF execute_at_end /\ cycles["request"].pc = "idle"
       THEN \E r \in {BeginCycle(coordinator, hub_cloud)} :
               /\ coordinator' = r.c
               /\ cycles' = [cycles EXCEPT !["request"] = r.cycle]
               /\ pending_window' = TagsAfter(pending_window, r)
               /\ window_pushes' = PushesAfter(window_pushes, coordinator.updating,
                                               pending_window, r)
               /\ cooldown' = (r.cycle.pc = "idle")
               /\ window' = IF r.cycle.pc = "idle" THEN window + 1 ELSE window
       ELSE /\ cooldown' = FALSE
            /\ UNCHANGED <<coordinator, cycles, window, pending_window, window_pushes>>
    /\ execute_at_end' = FALSE
    /\ UNCHANGED <<hub_cloud, now, writes>>
    /\ UNCHANGED notConcVars

\* hub.async_discover_device has answered cycle p
DetectAnswered ==
    /\ \E p \in Cycles : \E found \in BOOLEAN :
        /\ cycles[p].pc = "detect"
        /\ Advance(p, coordinator, pending_window,
                   DetectDone(coordinator, hub_cloud, found))
    /\ UNCHANGED <<execute_at_end, hub_cloud, now, writes>>
    /\ UNCHANGED notConcVars

\* appliance.apply of cycle p has returned or raised MideaError
ApplyReturned ==
    /\ \E p \in Cycles : \E apply_ok \in BOOLEAN :
        /\ cycles[p].pc = "apply"
        /\ Advance(p, coordinator, pending_window,
                   ApplyDone(coordinator, now, hub_cloud, apply_ok))
    /\ UNCHANGED <<execute_at_end, hub_cloud, now, writes>>
    /\ UNCHANGED notConcVars

\* appliance.refresh of cycle p has returned or raised MideaError
RefreshReturned ==
    /\ \E p \in Cycles : \E refresh_ok \in BOOLEAN :
        /\ cycles[p].pc = "refresh"
        /\ Advance(p, coordinator, pending_window,
                   RefreshDone(coordinator, now, refresh_ok))
    /\ UNCHANGED <<execute_at_end, hub_cloud, now, writes>>
    /\ UNCHANGED notConcVars

NextConc ==
    \/ ScheduledRefresh
    \/ RequestApply
    \/ TimerFinish
    \/ DetectAnswered
    \/ ApplyReturned
    \/ RefreshReturned
    \/ Tick

(***************************************************************************)
(* Actions of the discovery                                                *)
(***************************************************************************)
Snapshot == [devices |-> devices, coordinators |-> coordinators,
             notified |-> notifed_addresses]
NoSnapshot == [devices |-> <<>>, coordinators |-> <<>>, notified |-> {}]

Init ==
    /\ devices \in InitRegistries
    /\ coordinators = <<>>
    /\ notifed_addresses = {}
    /\ scan = <<>>
    /\ effects = <<>>
    /\ pre = NoSnapshot
    /\ auto_admitted = {}
    /\ last_op = "init"
    /\ coordinator = NewCoordinator(TRUE, 1, FALSE)
    /\ hub_cloud = FALSE
    /\ device_token = NoValue
    /\ device_ttl = 1
    /\ now = 0
    /\ last_refresh = NoCall
    /\ run_start = NoRun
    /\ cycles = [p \in Cycles |-> IdleCycle]
    /\ cooldown = FALSE
    /\ execute_at_end = FALSE
    /\ writes = 0
    /\ window = 0
    /\ pending_window = [a \in Attrs |-> NoWindow]
    /\ window_pushes = [w \in 1..MaxWrites |-> 0]
    /\ broadcast_conf = <<>>
    /\ scan_interval = DEFAULT_SCAN_INTERVAL
    /\ conf_addresses = <<>>
    /\ broadcast_addresses = <<>>
    /\ address_iterator = EmptyIterator
    /\ remove_discovery = FALSE
    /\ scanned = <<>>
    /\ last_tick = NoTick
    /\ tick_no = 0
    /\ setup_non_lan = FALSE
    /\ hub_data = <<>>
    /\ hub_errors = {}
    /\ updated_conf = FALSE
    /\ setup_result = "none"
    /\ attempted = {}
    /\ refresh_failed = FALSE
    /\ entries = <<>>
    /\ flow = NoFlow
    /\ flow_result = NoResult
    /\ last_login = "none"
    /\ reloaded = FALSE
    /\ live_conf = EmptyConf
    /\ given_conf = EmptyConf
    /\ redaction = NoRedaction
    /\ gen_addresses = <<>>
    /\ gen_batch_size = DISCOVERY_BATCH_SIZE
    /\ yielded = <<>>
    /\ gen_done = FALSE
    /\ timers = 0
    /\ last_call = "none"

\* A discovery tick whose scan found something: _async_discover calls
\* _async_run_discovery(result)
AsyncRunDiscovery ==
    /\ last_op # "init"
    /\ \E found \in ScanResults :
        /\ scan = <<>> \/ found = scan
        /\ \E r \in {RunDiscovery(devices, coordinators, notifed_addresses, found)} :
            /\ devices' = r.devices
            /\ coordinators' = r.coordinators
            /\ notifed_addresses' = r.notified
            /\ scan' = found
            /\ effects' = r.effects
            /\ pre' = Snapshot
            /\ auto_admitted' = auto_admitted \cup (Len(devices) + 1 .. Len(r.devices))
            /\ last_op' = "discovery"
    /\ UNCHANGED notDiscVars

\* The entry is set up (first setup, or the reload a cycle scheduled): a new Hub
\* with a new discovery helper, Hub.async_setup, then the helper's _setup
EntrySetup ==
    /\ UNCHANGED notDiscVars
    /\ \E ok \in SUBSET (DOMAIN devices) :
        /\ scan = <<>>
        /\ ok \subseteq { i \in DOMAIN devices : HasCoordinator(devices[i]) }
        /\ coordinators' = SetupCoordinators(devices, ok, 1)
        /\ notifed_addresses' = {}
        /\ scan' = <<>>
        /\ effects' = <<>>
        /\ pre' = NoSnapshot
        /\ last_op' = "setup"
        /\ UNCHANGED <<devices, auto_admitted>>

\* ApplianceDiscoveryHelper.start on the running hub: _setup clears the
\* addresses already notified
Start ==
    /\ last_op # "init"
    /\ scan = <<>>
    /\ notifed_addresses' = {}
    /\ scan' = <<>>
    /\ effects' = <<>>
    /\ pre' = NoSnapshot
    /\ last_op' = "start"
    /\ UNCHANGED <<devices, coordinators, auto_admitted>>
    /\ UNCHANGED notDiscVars

\* The discovery tick is over: its scan result and the record of its side
\* effects are dropped; the program's state stays as it is
TickDone ==
    /\ scan # <<>>
    /\ scan' = <<>>
    /\ effects' = <<>>
    /\ pre' = NoSnapshot
    /\ UNCHANGED <<devices, coordinators, notifed_addresses, auto_admitted, last_op>>
    /\ UNCHANGED notDiscVars

Next == AsyncRunDiscovery \/ TickDone \/ EntrySetup \/ Start

(***************************************************************************)
(* Actions of the periodic discovery                                       *)
(***************************************************************************)
\* hub.config[CONF_BROADCAST_ADDRESS]
BroadcastConfs ==
    { <<>>, <<Block25>>, <<Block24>>, <<LOCAL_BROADCAST, Block25>>,
      <<Block25, Block24>>, <<"A2">> }

\* The registries the entry starts with: those of Init, and a cloud device
\* whose address is known
ScanConfs == InitConfs \cup { DeviceConf(sn, DISCOVERY_CLOUD, "A2") : sn \in Serials }
ScanRegistries ==
    { r \in UNION { [1..n -> ScanConfs] : n \in 0..Cardinality(Serials) } : NoDuplicates(r) }

\* What one scan finds
ScanFound == [1..1 -> ScanDevices]

InitScan ==
    /\ devices \in ScanRegistries
    /\ coordinators = <<>>
    /\ notifed_addresses = {}
    /\ scan = <<>>
    /\ effects = <<>>
    /\ pre = NoSnapshot
    /\ auto_admitted = {}
    /\ last_op = "init"
    /\ coordinator = NewCoordinator(TRUE, 1, FALSE)
    /\ hub_cloud = FALSE
    /\ device_token = NoValue
    /\ device_ttl = 1
    /\ now = 0
    /\ last_refresh = NoCall
    /\ run_start = NoRun
    /\ cycles = [p \in Cycles |-> IdleCycle]
    /\ cooldown = FALSE
    /\ execute_at_end = FALSE
    /\ writes = 0
    /\ window = 0
    /\ pending_window = [a \in Attrs |-> NoWindow]
    /\ window_pushes = [w \in 1..MaxWrites |-> 0]
    /\ broadcast_conf \in BroadcastConfs
    /\ scan_interval \in {0, DEFAULT_SCAN_INTERVAL}
    /\ conf_addresses = <<>>
    /\ broadcast_addresses = <<>>
    /\ address_iterator = EmptyIterator
    /\ remove_discovery = FALSE
    /\ scanned = <<>>
    /\ last_tick = NoTick
    /\ tick_no = 0
    /\ setup_non_lan = FALSE
    /\ hub_data = <<>>
    /\ hub_errors = {}
    /\ updated_conf = FALSE
    /\ setup_result = "none"
    /\ attempted = {}
    /\ refresh_failed = FALSE
    /\ entries = <<>>
    /\ flow = NoFlow
    /\ flow_result = NoResult
    /\ last_login = "none"
    /\ reloaded = FALSE
    /\ live_conf = EmptyConf
    /\ given_conf = EmptyConf
    /\ redaction = NoRedaction
    /\ gen_addresses = <<>>
    /\ gen_batch_size = DISCOVERY_BATCH_SIZE
    /\ yielded = <<>>
    /\ gen_done = FALSE
    /\ timers = 0
    /\ last_call = "none"

\* coordinator.device of the coordinators in `un`: the config the coordinator
\* was created for
CoordinatorDevices(dev_confs, coords, un) ==
    LET Unavailable(conf) ==
            \E i \in un : coords[i].serial_number = conf.unique_id
    IN  SelectItems(dev_confs, Unavailable, 1)

\* The entry is set up (first setup, or the reload a cycle scheduled):
\* Hub.async_setup creates the coordinators, then ApplianceDiscoveryHelper.start:
\* stop(), _setup(), and the timer when the scan interval is not zero.
\* un: the coordinators that are not available when _setup runs
ScanStart ==
    /\ \E ok \in SUBSET (DOMAIN devices) :
        /\ ok \subseteq { i \in DOMAIN devices : HasCoordinator(devices[i]) }
        /\ \E coords \in {SetupCoordinators(devices, ok, 1)} :
           \E un \in SUBSET (DOMAIN coords) :
           \E r \in {_setup(devices, CoordinatorDevices(devices, coords, un),
                            broadcast_conf)} :
            /\ coordinators' = coords
            /\ conf_addresses' = r.conf_addresses
            /\ broadcast_addresses' = r.broadcast_addresses
            /\ address_iterator' = r.address_iterator
    /\ notifed_addresses' = {}
    /\ remove_discovery' = (scan_interval # 0)
    /\ scanned' = <<>>
    /\ last_tick' = NoTick
    /\ tick_no' = 0
    /\ setup_non_lan' = (\E i \in DOMAIN devices : devices[i].discovery # DISCOVERY_LAN)
    /\ last_op' = "setup"
    /\ UNCHANGED <<devices, scan, effects, pre, auto_admitted>>
    /\ UNCHANGED <<broadcast_conf, scan_interval>>
    /\ UNCHANGED notScanVars

\* ApplianceDiscoveryHelper.stop (the entry is unloaded)
ScanStop ==
    /\ remove_discovery
    /\ remove_discovery' = FALSE
    /\ UNCHANGED <<broadcast_conf, scan_interval, conf_addresses, broadcast_addresses,
                   address_iterator, scanned, last_tick, tick_no, setup_non_lan>>
    /\ UNCHANGED discVars
    /\ UNCHANGED notScanVars

\* One call of _async_discover by the timer, whose scan finds nothing
DiscoverNothing ==
    /\ remove_discovery
    /\ tick_no < MaxTicks
    /\ \E n \in {NextBatch(address_iterator, conf_addresses)} :
        /\ address_iterator' = n.iterator
        /\ scanned' = ScanAddresses(broadcast_addresses, n.batch)
    /\ last_tick' = TickOutcome(FALSE, FALSE)
    /\ tick_no' = tick_no + 1
    /\ UNCHANGED <<broadcast_conf, scan_interval, conf_addresses, broadcast_addresses,
                   remove_discovery, setup_non_lan>>
    /\ UNCHANGED discVars
    /\ UNCHANGED notScanVars

\* One call of _async_discover by the timer, whose scan raises an error:
\* neither MideaClient.find_appliances nor _async_discover catches it
DiscoverError ==
    /\ remove_discovery
    /\ tick_no < MaxTicks
    /\ \E n \in {NextBatch(address_iterator, conf_addresses)} :
        /\ address_iterator' = n.iterator
        /\ scanned' = ScanAddresses(broadcast_addresses, n.batch)
    /\ last_tick' = TickOutcome(TRUE, TRUE)
    /\ tick_no' = tick_no + 1
    /\ UNCHANGED <<broadcast_conf, scan_interval, conf_addresses, broadcast_addresses,
                   remove_discovery, setup_non_lan>>
    /\ UNCHANGED discVars
    /\ UNCHANGED notScanVars

\* One call of _async_discover by the timer, whose scan finds appliances:
\* _async_run_discovery(result)
DiscoverFound ==
    /\ remove_discovery
    /\ tick_no < MaxTicks
    /\ \E n \in {NextBatch(address_iterator, conf_addresses)} :
        /\ address_iterator' = n.iterator
        /\ scanned' = ScanAddresses(broadcast_addresses, n.batch)
    /\ \E found \in ScanFound :
       \E r \in {RunDiscovery(devices, coordinators, notifed_addresses, found)} :
        /\ devices' = r.devices
        /\ coordinators' = r.coordinators
        /\ notifed_addresses' = r.notified
        /\ auto_admitted' = auto_admitted \cup (Len(devices) + 1 .. Len(r.devices))
    /\ last_tick' = TickOutcome(FALSE, FALSE)
    /\ tick_no' = tick_no + 1
    /\ last_op' = "discovery"
    /\ UNCHANGED <<scan, effects, pre>>
    /\ UNCHANGED <<broadcast_conf, scan_interval, conf_addresses, broadcast_addresses,
                   remove_discovery, setup_non_lan>>
    /\ UNCHANGED notScanVars

NextScan == ScanStart \/ ScanStop \/ DiscoverNothing \/ DiscoverError \/ DiscoverFound

(***************************************************************************)
(* hub.py: redacted_conf; util.py: RedactedConf                            *)
(***************************************************************************)
\* most devices of a logged configuration
MaxLogged == 2
\* The configurations that are logged
LoggedUsernames == {<<>>, <<"u", "1">>}
LoggedPasswords == {<<>>, <<"p", "w", "1">>}
LoggedDevices ==
    [token : {<<>>, <<"t", "1">>},
     token_key : {<<>>, <<"k", "1", "2">>},
     id : {<<"1", "2", "3">>, <<"1", "2", "3", "4", "5">>},
     unique_id : {<<"S", "1">>, <<"S", "2", "3", "4", "5", "6", "7", "8", "9">>}]
LoggedConfs ==
    { LoggedConf(u, p, devs) :
        u \in LoggedUsernames, p \in LoggedPasswords,
        devs \in UNION { [1..n -> LoggedDevices] : n \in 0..MaxLogged } }

\* char * n
Stars(n) == [i \in 1..n |-> "*"]

\* _redact_key of hub.py: the value of the key after the call
_redact_key(text) == IF text # <<>> THEN Stars(Len(text)) ELSE text

\* redacted_conf of hub.py. conf = {**data} copies the top level only, so the
\* device dicts of conf are those of data; the assignment to the first character
\* of the masked username raises TypeError (a str has no item assignment).
\* data: the configuration given, after the call
redacted_conf(data) ==
    LET devs == [i \in DOMAIN data.devices |->
                    [data.devices[i] EXCEPT !.token = _redact_key(@),
                                            !.token_key = _redact_key(@)]]
    IN  IF data.username # <<>>
        THEN [raised |-> TRUE, conf |-> EmptyConf, data |-> data]
        ELSE [raised |-> FALSE,
              conf |-> [data EXCEPT !.password = _redact_key(@), !.devices = devs],
              data |-> [data EXCEPT !.devices = devs]]

\* _redact of util.py: the value of the key after the call
_redact(text, length) ==
    IF text = <<>> THEN text
    ELSE IF length <= 0 \/ length >= Len(text) THEN Stars(Len(text))
    ELSE SubSeq(text, 1, Len(text) - length) \o Stars(length)

\* _redact_device_conf of util.py
_redact_device_conf(device) ==
    [device EXCEPT !.token = _redact(@, 0), !.token_key = _redact(@, 0),
                   !.unique_id = _redact(@, 8), !.id = _redact(@, 4)]

\* RedactedConf.__dict__ of util.py: it works on a deepcopy of the configuration
RedactedConf(data) ==
    [raised |-> FALSE,
     conf |-> [data EXCEPT !.username = _redact(@, 0), !.password = _redact(@, 0),
                           !.devices = [i \in DOMAIN @ |-> _redact_device_conf(@[i])]],
     data |-> data]

(***************************************************************************)
(* hub.py: Hub.async_setup                                                 *)
(***************************************************************************)
\* The registries an entry is set up with: those of Init, and lan devices of
\* protocol version 3 with or without token, or without address
SetupConf(sn, ip, version, token, key) ==
    [DeviceConf(sn, DISCOVERY_LAN, ip) EXCEPT !.api_version = version,
                                              !.token = token, !.token_key = key]
SetupConfs ==
    InitConfs
    \cup { SetupConf(sn, "A1", 3, NoValue, NoValue) : sn \in Serials }
    \cup { SetupConf(sn, "A1", 3, TokenOf(sn), KeyOf(sn)) : sn \in Serials }
    \cup { SetupConf(sn, NoAddress, 3, NoValue, NoValue) : sn \in Serials }
SetupRegistries ==
    { r \in UNION { [1..n -> SetupConfs] : n \in 0..Cardinality(Serials) } : NoDuplicates(r) }

\* What the device client does for one device: connect_to_cloud succeeds, raises
\* AuthenticationError or raises another error; appliance_state raises, or
\* returns the appliance with or without token and key
SetupOutcomes ==
    [login : {"ok", "auth", "error"}, state : {"ok", "ok_no_token", "fail"}]

\* The appliance that appliance_state returns
Appliance(sn, with_token) ==
    [version |-> VersionOf(sn),
     token |-> IF with_token THEN TokenOf(sn) ELSE NoValue,
     key |-> IF with_token THEN KeyOf(sn) ELSE NoValue]

\* The fields of a Hub that async_setup works on; raised: the exception that
\* left _process_appliance
HubState(cloud, errors, coords, updated, devs, tried, raised) ==
    [cloud |-> cloud, errors |-> errors, coordinators |-> coords,
     updated_conf |-> updated, devices |-> devs, attempted |-> tried,
     raised |-> raised]
NewHubState == HubState(FALSE, {}, <<>>, FALSE, <<>>, {}, "none")

\* Hub._create_coordinator: the hub and the device config after the call
_create_coordinator(h, device, appliance, need_token) ==
    LET no_version == device.api_version = 0
        new_token == need_token /\ appliance.token # NoValue /\ appliance.key # NoValue
        d1 == IF no_version THEN [device EXCEPT !.api_version = appliance.version]
              ELSE device
        d2 == IF new_token
              THEN [d1 EXCEPT !.token = appliance.token, !.token_key = appliance.key]
              ELSE d1
    IN  [h |-> [h EXCEPT !.updated_conf = @ \/ no_version \/ new_token,
                         !.coordinators = Append(@, Coordinator(d2))],
         device |-> d2]

\* Hub.data as the log calls of the setup read it: the entry of a config flow
\* holds the username of a successful cloud login
HubLoggedConf == LoggedConf(<<"u", "1">>, <<"p", "w", "1">>, <<>>)

\* The arguments of the log calls of _process_appliance: formatting
\* redacted_conf(self.data) raises TypeError
LogCallRaises == redacted_conf(HubLoggedConf).raised

\* Hub._process_appliance: the hub and the device config after the call
_process_appliance(h, device, o) ==
    LET discovery_mode == device.discovery
        use_cloud == discovery_mode = DISCOVERY_CLOUD
        lan_mode == discovery_mode = DISCOVERY_LAN
        need_token == /\ discovery_mode = DISCOVERY_LAN
                      /\ device.api_version >= 3
                      /\ (device.token = NoValue \/ device.token_key = NoValue)
        need_cloud == use_cloud \/ need_token
        login == need_cloud /\ ~h.cloud
        ip_address == IF lan_mode THEN device.ip_address ELSE NoAddress
        \* except clause of the cloud login: the error is recorded
        LoginFailed(g) == [h |-> [g EXCEPT !.errors = @ \cup {device.unique_id}],
                           device |-> device]
        \* except clause of the device setup: the error is recorded and logged
        Failed(g) ==
            [h |-> [g EXCEPT !.errors = @ \cup {device.unique_id},
                             !.raised = IF LogCallRaises THEN "TypeError" ELSE @],
             device |-> device]
        Connected(g) ==
            IF ip_address = NoAddress /\ ~use_cloud /\ LogCallRaises THEN Failed(g)
            ELSE IF o.state = "fail" THEN Failed(g)
            ELSE _create_coordinator(g, device,
                                     Appliance(device.unique_id, o.state = "ok"),
                                     need_token)
    IN  IF discovery_mode \in {DISCOVERY_IGNORE, DISCOVERY_WAIT}
        THEN [h |-> h, device |-> device]
        ELSE IF login /\ o.login = "auth"
        THEN [h |-> [h EXCEPT !.raised = "ConfigEntryAuthFailed"], device |-> device]
        ELSE IF login /\ o.login = "error"
        THEN LoginFailed(h)
        ELSE IF login
        THEN Connected([h EXCEPT !.cloud = TRUE])
        ELSE Connected(h)

\* The loop of Hub.async_setup over the configured devices, from the i-th one;
\* an exception that leaves _process_appliance ends it
RECURSIVE ProcessAppliances(_, _, _, _)
ProcessAppliances(h, dev_confs, outcomes, i) ==
    IF i > Len(dev_confs) \/ h.raised # "none" THEN h
    ELSE LET r == _process_appliance(
                      [h EXCEPT !.attempted = @ \cup {dev_confs[i].unique_id}],
                      dev_confs[i], outcomes[i])
         IN  ProcessAppliances([r.h EXCEPT !.devices = Append(@, r.device)],
                               dev_confs, outcomes, i + 1)

\* _ApplianceDiscoveryHelper.setup of hub.py: the addresses of the devices that
\* are not in lan mode
RECURSIVE HubConfAddresses(_, _)
HubConfAddresses(dev_confs, i) ==
    IF i > Len(dev_confs) THEN <<>>
    ELSE (IF /\ dev_confs[i].discovery # DISCOVERY_LAN
             /\ dev_confs[i].ip_address # NoAddress
             /\ dev_confs[i].ip_address # UNKNOWN_IP
          THEN <<dev_confs[i].ip_address>> ELSE <<>>)
         \o HubConfAddresses(dev_confs, i + 1)

\* _ApplianceDiscoveryHelper.setup of hub.py
HubDiscoverySetup(dev_confs, broadcast) ==
    LET has_discovrable ==
            \E i \in DOMAIN dev_confs : dev_confs[i].discovery # DISCOVERY_LAN
        addresses == HubConfAddresses(dev_confs, 1)
                     \o SelectItems(broadcast, NotLocalBroadcast, 1)
    IN  [broadcast_addresses |->
            <<Host(LOCAL_BROADCAST, 0)>> \o ListBroadcastAddresses(addresses),
         address_iterator |->
            IF has_discovrable /\ addresses # <<>> THEN CycleIterator ELSE EmptyIterator]

InitSetup ==
    /\ devices \in SetupRegistries
    /\ coordinators = <<>>
    /\ notifed_addresses = {}
    /\ scan = <<>>
    /\ effects = <<>>
    /\ pre = NoSnapshot
    /\ auto_admitted = {}
    /\ last_op = "init"
    /\ coordinator = NewCoordinator(TRUE, 1, FALSE)
    /\ hub_cloud = FALSE
    /\ device_token = NoValue
    /\ device_ttl = 1
    /\ now = 0
    /\ last_refresh = NoCall
    /\ run_start = NoRun
    /\ cycles = [p \in Cycles |-> IdleCycle]
    /\ cooldown = FALSE
    /\ execute_at_end = FALSE
    /\ writes = 0
    /\ window = 0
    /\ pending_window = [a \in Attrs |-> NoWindow]
    /\ window_pushes = [w \in 1..MaxWrites |-> 0]
    /\ broadcast_conf \in {<<>>, <<Block25>>}
    /\ scan_interval \in {0, DEFAULT_SCAN_INTERVAL}
    /\ conf_addresses = <<>>
    /\ broadcast_addresses = <<>>
    /\ address_iterator = EmptyIterator
    /\ remove_discovery = FALSE
    /\ scanned = <<>>
    /\ last_tick = NoTick
    /\ tick_no = 0
    /\ setup_non_lan = FALSE
    /\ hub_data = <<>>
    /\ hub_errors = {}
    /\ updated_conf = FALSE
    /\ setup_result = "none"
    /\ attempted = {}
    /\ refresh_failed = FALSE
    /\ entries = <<>>
    /\ flow = NoFlow
    /\ flow_result = NoResult
    /\ last_login = "none"
    /\ reloaded = FALSE
    /\ live_conf = EmptyConf
    /\ given_conf = EmptyConf
    /\ redaction = NoRedaction
    /\ gen_addresses = <<>>
    /\ gen_batch_size = DISCOVERY_BATCH_SIZE
    /\ yielded = <<>>
    /\ gen_done = FALSE
    /\ timers = 0
    /\ last_call = "none"

\* Hub.async_setup on a Hub whose fields are h0. refresh_ok:
\* async_config_entry_first_refresh succeeds for every coordinator; it raises
\* ConfigEntryNotReady otherwise.
AsyncSetupOn(h0) ==
    /\ \E outcomes \in [DOMAIN devices -> SetupOutcomes], refresh_ok \in BOOLEAN :
       \E h \in {ProcessAppliances(h0, devices, outcomes, 1)} :
        /\ hub_cloud' = h.cloud
        /\ hub_errors' = h.errors
        /\ coordinators' = h.coordinators
        /\ updated_conf' = h.updated_conf
        /\ attempted' = h.attempted
        /\ IF h.raised # "none"
           THEN /\ setup_result' = h.raised
                /\ hub_data' = devices
                /\ refresh_failed' = FALSE
                /\ UNCHANGED <<devices, notifed_addresses, broadcast_addresses,
                               address_iterator, remove_discovery>>
           ELSE IF h.coordinators # <<>> /\ ~refresh_ok
           THEN /\ setup_result' = "ConfigEntryNotReady"
                /\ hub_data' = h.devices
                /\ refresh_failed' = TRUE
                /\ UNCHANGED <<devices, notifed_addresses, broadcast_addresses,
                               address_iterator, remove_discovery>>
           ELSE \E d \in {HubDiscoverySetup(h.devices, broadcast_conf)} :
                /\ setup_result' = IF h.errors # {} THEN "ConfigEntryNotReady"
                                   ELSE "returned"
                /\ hub_data' = h.devices
                /\ refresh_failed' = FALSE
                /\ devices' = IF h.updated_conf THEN h.devices ELSE devices
                /\ notifed_addresses' = {}
                /\ broadcast_addresses' = d.broadcast_addresses
                /\ address_iterator' = d.address_iterator
                /\ remove_discovery' = (scan_interval # 0)
    /\ UNCHANGED notSetupVars

\* async_setup_entry for an entry that has no Hub in hass.data: a new Hub is
\* stored there and set up
HubAsyncSetup ==
    /\ setup_result = "none"
    /\ AsyncSetupOn(NewHubState)

\* most coordinators of a Hub when a setup begins
MaxCoordinators == 3

\* async_setup_entry called again after ConfigEntryNotReady: hass.data still
\* holds the Hub of the failed attempt, and that Hub is set up again. The setup
\* starts with empty errors and with the cloud handle and the coordinators the
\* Hub already has.
SetupEntryAgain ==
    /\ setup_result = "ConfigEntryNotReady"
    /\ Len(coordinators) <= MaxCoordinators
    /\ AsyncSetupOn([NewHubState EXCEPT !.cloud = hub_cloud,
                                        !.coordinators = coordinators])

\* Hub.async_unload: the periodic discovery stops
HubAsyncUnload ==
    /\ setup_result = "returned"
    /\ remove_discovery
    /\ remove_discovery' = FALSE
    /\ UNCHANGED <<devices, coordinators, notifed_addresses, hub_cloud,
                   broadcast_addresses, address_iterator>>
    /\ UNCHANGED setupVars
    /\ UNCHANGED notSetupVars

\* Hub.__init__: the entry is set up again with a new Hub
NewHub ==
    /\ setup_result # "none"
    /\ coordinators' = <<>>
    /\ notifed_addresses' = {}
    /\ hub_cloud' = FALSE
    /\ broadcast_addresses' = <<>>
    /\ address_iterator' = EmptyIterator
    /\ remove_discovery' = FALSE
    /\ hub_data' = <<>>
    /\ hub_errors' = {}
    /\ updated_conf' = FALSE
    /\ setup_result' = "none"
    /\ attempted' = {}
    /\ refresh_failed' = FALSE
    /\ UNCHANGED devices
    /\ UNCHANGED notSetupVars

NextSetup == HubAsyncSetup \/ SetupEntryAgain \/ HubAsyncUnload \/ NewHub

(***************************************************************************)
(* config_flow.py: MideaConfigFlow                                         *)
(***************************************************************************)
Usernames == {"u1", "u2"}
Passwords == {"p1"}
\* CONF_INCLUDE of the advanced settings
Includes ==
    { {APPLIANCE_TYPE_DEHUMIDIFIER}, {APPLIANCE_TYPE_AIRCON},
      {APPLIANCE_TYPE_DEHUMIDIFIER, APPLIANCE_TYPE_AIRCON} }
\* What find_appliances returns to the flow
FlowAppliances ==
    { <<>>,
      <<LanDevice("S1", "A1", APPLIANCE_TYPE_DEHUMIDIFIER)>>,
      <<LanDevice("S1", NoAddress, APPLIANCE_TYPE_DEHUMIDIFIER)>>,
      <<LanDevice("S2", "A2", APPLIANCE_TYPE_AIRCON)>>,
      <<LanDevice("S1", NoAddress, APPLIANCE_TYPE_DEHUMIDIFIER),
        LanDevice("S2", NoAddress, APPLIANCE_TYPE_DEHUMIDIFIER)>>,
      <<LanDevice("S1", "A1", APPLIANCE_TYPE_DEHUMIDIFIER),
        LanDevice("S2", "A2", APPLIANCE_TYPE_AIRCON)>> }

\* The forms the user fills in
UserInputs == [username : Usernames, password : Passwords, advanced : BOOLEAN]
AdvancedInputs ==
    [username : Usernames, password : Passwords, include : Includes,
     broadcast_ok : BOOLEAN]
ApplianceInputs ==
    [discovery : {DISCOVERY_IGNORE, DISCOVERY_LAN, DISCOVERY_CLOUD, DISCOVERY_WAIT},
     ip_address : {"A1", UNKNOWN_IP}]

\* What the device client does in one step. login: connect_to_cloud returns,
\* raises CloudAuthenticationError ("auth"), another MideaError ("midea") or
\* another exception ("other"); scan_ok, found: find_appliances returns `found`
\* or raises a MideaError; state_ok: appliance_state returns the appliance or
\* raises a MideaError
Logins == {"ok", "auth", "midea", "other"}
DiscoveryOutcomes == [login : Logins, scan_ok : BOOLEAN, found : FlowAppliances]
ApplianceOutcomes == [login : Logins, state_ok : BOOLEAN]

\* _connect_to_cloud: the exception that leaves it, "" for none. Every
\* MideaError becomes _FlowException("no_cloud").
ConnectError(login) ==
    IF login = "ok" THEN ""
    ELSE IF login \in {"auth", "midea"} THEN "no_cloud"
    ELSE "other"

\* _process_exception and the form the step shows after it: an exception that
\* is no MideaError and no _FlowException is raised again
\* Variant: the flow is aborted with the error as reason
_process_exception_aborts(step_id, ex) ==
    IF ex = "other" THEN FlowResult("raised", step_id, "", "")
    ELSE FlowResult("abort", "", ex, "")

_process_exception(step_id, ex) ==
    IF ex = "other" THEN FlowResult("raised", step_id, "", "")
    ELSE FlowResult("form", step_id, "", ex)

\* A step's outcome: the flow, the entries, its result, the login it made and
\* whether it scheduled a reload
StepOutcome(f, ents, result, login, reload) ==
    [flow |-> f, entries |-> ents, result |-> result, login |-> login,
     reloaded |-> reload]

\* The step failed with exception ex
StepFailed(f, ents, step_id, ex, login) ==
    StepOutcome(f, ents, _process_exception(step_id, ex), login, FALSE)

\* A config entry: its unique id and its data
ConfigEntry(f, devs) ==
    [unique_id |-> f.username, username |-> f.username, password |-> f.password,
     include |-> f.include, devices |-> devs]

\* async_set_unique_id: the index of the entry with this unique id, 0 for None
EntryWithUniqueId(ents, unique_id) ==
    IF \E i \in DOMAIN ents : ents[i].unique_id = unique_id
    THEN CHOOSE i \in DOMAIN ents : ents[i].unique_id = unique_id
    ELSE 0

\* _MideaFlow._async_add_entry: the configs of the supported appliances that are
\* not ignored. The appliances without address have got one in their step.
RECURSIVE SupportedDevicesConf(_, _)
SupportedDevicesConf(f, i) ==
    IF i > Len(f.appliances) THEN <<>>
    ELSE (IF /\ supported_appliance(f.include, f.appliances[i])
             /\ f.devices_conf[i] # DISCOVERY_IGNORE
          THEN <<[unique_id |-> f.appliances[i].serial_number,
                  discovery |-> f.devices_conf[i],
                  ip_address |-> IF f.appliances[i].address # NoAddress
                                 THEN f.appliances[i].address ELSE UNKNOWN_IP,
                  type |-> f.appliances[i].type]>>
          ELSE <<>>)
         \o SupportedDevicesConf(f, i + 1)

\* The entries without the i-th one
WithoutEntry(ents, i) ==
    IF i = 0 THEN ents
    ELSE SubSeq(ents, 1, i - 1) \o SubSeq(ents, i + 1, Len(ents))

\* MideaConfigFlow._async_add_entry and _MideaFlow._async_add_entry. An entry
\* created with the unique id of an existing entry replaces it.
\* Variant: the entry is created whether there are devices or not
_async_add_entry_always(f, ents, login) ==
    LET idx == EntryWithUniqueId(ents, f.username)
        devs == SupportedDevicesConf(f, 1)
        data == ConfigEntry(f, devs)
        updated == IF idx # 0 THEN [ents EXCEPT ![idx] = data] ELSE ents
        g == [f EXCEPT !.step = "finished",
                       !.devices_conf = [i \in DOMAIN devs |-> devs[i].discovery]]
    IN  StepOutcome(g, Append(WithoutEntry(updated, idx), data),
                    FlowResult("create_entry", "", "", ""), login, idx # 0)

_async_add_entry(f, ents, login) ==
    LET idx == EntryWithUniqueId(ents, f.username)
        devs == SupportedDevicesConf(f, 1)
        data == ConfigEntry(f, devs)
        updated == IF idx # 0 THEN [ents EXCEPT ![idx] = data] ELSE ents
        g == [f EXCEPT !.step = "finished",
                       !.devices_conf = [i \in DOMAIN devs |-> devs[i].discovery]]
    IN  IF devs = <<>>
        THEN StepOutcome(g, updated,
                         FlowResult("abort", "", "no_configured_devices", ""),
                         login, idx # 0)
        ELSE StepOutcome(g, Append(WithoutEntry(updated, idx), data),
                         FlowResult("create_entry", "", "", ""), login, idx # 0)

\* _validate_discovery_phase: the indexes of the supported appliances that
\* have no address
RECURSIVE IndexesToProcess(_, _)
IndexesToProcess(f, i) ==
    IF i > Len(f.appliances) THEN <<>>
    ELSE (IF /\ supported_appliance(f.include, f.appliances[i])
             /\ f.appliances[i].address \in {NoAddress, UNKNOWN_IP}
          THEN <<i>> ELSE <<>>)
         \o IndexesToProcess(f, i + 1)

\* _validate_discovery_phase from _connect_and_discover on
ConnectAndDiscover(f, ents, step_id, out) ==
    IF ConnectError(out.login) # ""
    THEN StepFailed(f, ents, step_id, ConnectError(out.login), out.login)
    ELSE IF ~out.scan_ok
    THEN StepFailed([f EXCEPT !.cloud = TRUE], ents, step_id, "midea_client", out.login)
    ELSE LET g == [f EXCEPT !.cloud = TRUE,
                            !.appliances = out.found,
                            !.devices_conf = [i \in DOMAIN out.found |-> NoValue],
                            !.chosen = [i \in DOMAIN out.found |-> NoValue]]
             indexes == IndexesToProcess(g, 1)
         IN  IF indexes # <<>>
             THEN StepOutcome([g EXCEPT !.indexes_to_process = Tail(indexes),
                                        !.appliance_idx = Head(indexes),
                                        !.discovered_appliances =
                                            [i \in DOMAIN out.found |-> FALSE],
                                        !.step = "unreachable_appliance"],
                              ents,
                              FlowResult("form", "unreachable_appliance", "", ""),
                              out.login, FALSE)
             ELSE _async_add_entry([g EXCEPT !.indexes_to_process = <<>>], ents,
                                   out.login)

\* async_step_user with the user's input
async_step_user(f, ents, input, out) ==
    LET g == [f EXCEPT !.advanced_settings = FALSE]
        h == [g EXCEPT !.username = input.username, !.password = input.password]
    IN  IF ents # <<>>
        THEN StepOutcome([g EXCEPT !.step = "aborted"], ents,
                         FlowResult("abort", "", "single_instance_allowed", ""),
                         "none", FALSE)
        ELSE IF input.advanced
        THEN StepOutcome([h EXCEPT !.advanced_settings = TRUE,
                                   !.step = "advanced_settings"], ents,
                         FlowResult("form", "advanced_settings", "", ""), "none",
                         FALSE)
        ELSE ConnectAndDiscover([h EXCEPT !.include = {APPLIANCE_TYPE_DEHUMIDIFIER}],
                                ents, "user", out)

\* async_step_advanced_settings with the user's input
async_step_advanced_settings(f, ents, input, out) ==
    LET g == [f EXCEPT !.advanced_settings = TRUE,
                       !.username = input.username, !.password = input.password]
    IN  IF ~input.broadcast_ok
        THEN StepFailed(g, ents, "advanced_settings", "invalid_ip_range", "none")
        ELSE ConnectAndDiscover([g EXCEPT !.include = input.include], ents,
                                "advanced_settings", out)

\* _validate_appliance: the _FlowException it raises, "" for none
ValidateError(discovery_mode, address, state_ok) ==
    IF discovery_mode \in {DISCOVERY_IGNORE, DISCOVERY_WAIT} THEN ""
    ELSE IF discovery_mode = DISCOVERY_LAN /\ address = UNKNOWN_IP
    THEN "invalid_ip_address"
    ELSE IF ~state_ok THEN "not_discovered"
    ELSE ""

\* _async_step_appliance with the user's input, for the step
\* unreachable_appliance. _check_ip_address_unique reads CONF_IP_ADDRESS of the
\* configs before this one, which have no such key: a KeyError leaves the step.
_async_step_appliance(f, ents, input, out) ==
    LET idx == f.appliance_idx
        step_id == "unreachable_appliance"
        given == input.ip_address # NoAddress /\ input.ip_address # UNKNOWN_IP
        g == [f EXCEPT !.devices_conf[idx] = input.discovery,
                       !.chosen[idx] = input.discovery,
                       !.appliances[idx].address = input.ip_address]
        login == IF f.cloud THEN "none" ELSE out.login
        connected == [g EXCEPT !.cloud = TRUE]
        error == ValidateError(input.discovery, input.ip_address, out.state_ok)
        discovered == input.discovery \in {DISCOVERY_LAN, DISCOVERY_CLOUD}
        h == [connected EXCEPT !.discovered_appliances[idx] = discovered]
    IN  IF given /\ idx > 1
        THEN StepFailed(f, ents, step_id, "other", "none")
        ELSE IF ~f.cloud /\ ConnectError(out.login) # ""
        THEN StepFailed(g, ents, step_id, ConnectError(out.login), login)
        ELSE IF error # ""
        THEN StepFailed(connected, ents, step_id, error, login)
        ELSE IF h.indexes_to_process = <<>>
        THEN _async_add_entry(h, ents, login)
        ELSE StepOutcome([h EXCEPT !.appliance_idx = Head(h.indexes_to_process),
                                   !.indexes_to_process = Tail(@)],
                         ents, FlowResult("form", step_id, "", ""), login, FALSE)

\* async_step_reauth_confirm with the user's input: after the login the
\* password of the configuration becomes the local `password`, which is ""
async_step_reauth_confirm(f, ents, login) ==
    IF ConnectError(login) # ""
    THEN StepFailed(f, ents, "reauth_confirm", ConnectError(login), login)
    ELSE _async_add_entry([f EXCEPT !.cloud = TRUE, !.password = ""], ents, login)

InitFlow ==
    /\ devices = <<>>
    /\ coordinators = <<>>
    /\ notifed_addresses = {}
    /\ scan = <<>>
    /\ effects = <<>>
    /\ pre = NoSnapshot
    /\ auto_admitted = {}
    /\ last_op = "init"
    /\ coordinator = NewCoordinator(TRUE, 1, FALSE)
    /\ hub_cloud = FALSE
    /\ device_token = NoValue
    /\ device_ttl = 1
    /\ now = 0
    /\ last_refresh = NoCall
    /\ run_start = NoRun
    /\ cycles = [p \in Cycles |-> IdleCycle]
    /\ cooldown = FALSE
    /\ execute_at_end = FALSE
    /\ writes = 0
    /\ window = 0
    /\ pending_window = [a \in Attrs |-> NoWindow]
    /\ window_pushes = [w \in 1..MaxWrites |-> 0]
    /\ broadcast_conf = <<>>
    /\ scan_interval = DEFAULT_SCAN_INTERVAL
    /\ conf_addresses = <<>>
    /\ broadcast_addresses = <<>>
    /\ address_iterator = EmptyIterator
    /\ remove_discovery = FALSE
    /\ scanned = <<>>
    /\ last_tick = NoTick
    /\ tick_no = 0
    /\ setup_non_lan = FALSE
    /\ hub_data = <<>>
    /\ hub_errors = {}
    /\ updated_conf = FALSE
    /\ setup_result = "none"
    /\ attempted = {}
    /\ refresh_failed = FALSE
    /\ entries = <<>>
    /\ flow = NoFlow
    /\ flow_result = NoResult
    /\ last_login = "none"
    /\ reloaded = FALSE
    /\ live_conf = EmptyConf
    /\ given_conf = EmptyConf
    /\ redaction = NoRedaction
    /\ gen_addresses = <<>>
    /\ gen_batch_size = DISCOVERY_BATCH_SIZE
    /\ yielded = <<>>
    /\ gen_done = FALSE
    /\ timers = 0
    /\ last_call = "none"

\* The step ended as `r` says
StepTaken(r) ==
    /\ flow' = r.flow
    /\ entries' = r.entries
    /\ flow_result' = r.result
    /\ last_login' = r.login
    /\ reloaded' = r.reloaded
    /\ UNCHANGED notFlowVars

\* A flow is started by the user: async_step_user without input
StartUserFlow ==
    \E aborted \in {entries # <<>>} :
        StepTaken(
            IF aborted
            THEN StepOutcome([NewFlow("user") EXCEPT !.step = "aborted"], entries,
                             FlowResult("abort", "", "single_instance_allowed", ""),
                             "none", FALSE)
            ELSE StepOutcome([NewFlow("user") EXCEPT !.step = "user"], entries,
                             FlowResult("form", "user", "", ""), "none", FALSE))

\* A reauth flow is started for an entry: async_step_reauth with the entry's
\* data, then async_step_reauth_confirm without input
StartReauthFlow ==
    \E i \in DOMAIN entries :
        StepTaken(StepOutcome([NewFlow("reauth") EXCEPT
                                    !.step = "reauth_confirm",
                                    !.username = entries[i].username,
                                    !.password = entries[i].password,
                                    !.include = entries[i].include],
                              entries, FlowResult("form", "reauth_confirm", "", ""),
                              "none", FALSE))

\* The user submits the form of the step user
SubmitUser ==
    /\ flow.step = "user"
    /\ \E input \in UserInputs, out \in DiscoveryOutcomes :
        StepTaken(async_step_user(flow, entries, input, out))

\* The user submits the form of the step advanced_settings
SubmitAdvancedSettings ==
    /\ flow.step = "advanced_settings"
    /\ \E input \in AdvancedInputs, out \in DiscoveryOutcomes :
        StepTaken(async_step_advanced_settings(flow, entries, input, out))

\* The user submits the form of the step unreachable_appliance
SubmitUnreachableAppliance ==
    /\ flow.step = "unreachable_appliance"
    /\ \E input \in ApplianceInputs, out \in ApplianceOutcomes :
        StepTaken(_async_step_appliance(flow, entries, input, out))

\* The user submits the form of the step reauth_confirm
SubmitReauthConfirm ==
    /\ flow.step = "reauth_confirm"
    /\ \E login \in Logins :
        StepTaken(async_step_reauth_confirm(flow, entries, login))

NextFlow ==
    \/ StartUserFlow
    \/ StartReauthFlow
    \/ SubmitUser
    \/ SubmitAdvancedSettings
    \/ SubmitUnreachableAppliance
    \/ SubmitReauthConfirm

(***************************************************************************)
(* The redaction of logged configurations: specification                   *)
(***************************************************************************)
InitRedact ==
    /\ devices = <<>>
    /\ coordinators = <<>>
    /\ notifed_addresses = {}
    /\ scan = <<>>
    /\ effects = <<>>
    /\ pre = NoSnapshot
    /\ auto_admitted = {}
    /\ last_op = "init"
    /\ coordinator = NewCoordinator(TRUE, 1, FALSE)
    /\ hub_cloud = FALSE
    /\ device_token = NoValue
    /\ device_ttl = 1
    /\ now = 0
    /\ last_refresh = NoCall
    /\ run_start = NoRun
    /\ cycles = [p \in Cycles |-> IdleCycle]
    /\ cooldown = FALSE
    /\ execute_at_end = FALSE
    /\ writes = 0
    /\ window = 0
    /\ pending_window = [a \in Attrs |-> NoWindow]
    /\ window_pushes = [w \in 1..MaxWrites |-> 0]
    /\ broadcast_conf = <<>>
    /\ scan_interval = DEFAULT_SCAN_INTERVAL
    /\ conf_addresses = <<>>
    /\ broadcast_addresses = <<>>
    /\ address_iterator = EmptyIterator
    /\ remove_discovery = FALSE
    /\ scanned = <<>>
    /\ last_tick = NoTick
    /\ tick_no = 0
    /\ setup_non_lan = FALSE
    /\ hub_data = <<>>
    /\ hub_errors = {}
    /\ updated_conf = FALSE
    /\ setup_result = "none"
    /\ attempted = {}
    /\ refresh_failed = FALSE
    /\ entries = <<>>
    /\ flow = NoFlow
    /\ flow_result = NoResult
    /\ last_login = "none"
    /\ reloaded = FALSE
    /\ live_conf \in LoggedConfs
    /\ given_conf = EmptyConf
    /\ redaction = NoRedaction
    /\ gen_addresses = <<>>
    /\ gen_batch_size = DISCOVERY_BATCH_SIZE
    /\ yielded = <<>>
    /\ gen_done = FALSE
    /\ timers = 0
    /\ last_call = "none"

\* A log call formats redacted_conf(Hub.data)
LogRedactedConf ==
    /\ \E r \in {redacted_conf(live_conf)} :
        /\ given_conf' = live_conf
        /\ live_conf' = r.data
        /\ redaction' = Redaction("redacted_conf", r.raised, r.conf)
    /\ UNCHANGED notRedactVars

\* A log call formats RedactedConf(hub.config)
LogRedactedConfObject ==
    /\ \E r \in {RedactedConf(live_conf)} :
        /\ given_conf' = live_conf
        /\ live_conf' = r.data
        /\ redaction' = Redaction("RedactedConf", r.raised, r.conf)
    /\ UNCHANGED notRedactVars

NextRedact == LogRedactedConf \/ LogRedactedConfObject

(***************************************************************************)
(* One pass of the address generator: specification                        *)
(***************************************************************************)
\* longest list of configured addresses given to a generator
MaxConfigured == 2
\* largest batch size tried besides the default one
MaxBatch == 3
GeneratorAddresses ==
    UNION { [1..n -> {LOCAL_BROADCAST, "A1", "A2", Block29, Block30}] :
            n \in 0..MaxConfigured }
BatchSizes == (1..MaxBatch) \cup {DISCOVERY_BATCH_SIZE}

InitGenerator ==
    /\ devices = <<>>
    /\ coordinators = <<>>
    /\ notifed_addresses = {}
    /\ scan = <<>>
    /\ effects = <<>>
    /\ pre = NoSnapshot
    /\ auto_admitted = {}
    /\ last_op = "init"
    /\ coordinator = NewCoordinator(TRUE, 1, FALSE)
    /\ hub_cloud = FALSE
    /\ device_token = NoValue
    /\ device_ttl = 1
    /\ now = 0
    /\ last_refresh = NoCall
    /\ run_start = NoRun
    /\ cycles = [p \in Cycles |-> IdleCycle]
    /\ cooldown = FALSE
    /\ execute_at_end = FALSE
    /\ writes = 0
    /\ window = 0
    /\ pending_window = [a \in Attrs |-> NoWindow]
    /\ window_pushes = [w \in 1..MaxWrites |-> 0]
    /\ broadcast_conf = <<>>
    /\ scan_interval = DEFAULT_SCAN_INTERVAL
    /\ conf_addresses = <<>>
    /\ broadcast_addresses = <<>>
    /\ address_iterator = EmptyIterator
    /\ remove_discovery = FALSE
    /\ scanned = <<>>
    /\ last_tick = NoTick
    /\ tick_no = 0
    /\ setup_non_lan = FALSE
    /\ hub_data = <<>>
    /\ hub_errors = {}
    /\ updated_conf = FALSE
    /\ setup_result = "none"
    /\ attempted = {}
    /\ refresh_failed = FALSE
    /\ entries = <<>>
    /\ flow = NoFlow
    /\ flow_result = NoResult
    /\ last_login = "none"
    /\ reloaded = FALSE
    /\ live_conf = EmptyConf
    /\ given_conf = EmptyConf
    /\ redaction = NoRedaction
    /\ gen_addresses \in GeneratorAddresses
    /\ gen_batch_size \in BatchSizes
    /\ yielded = <<>>
    /\ gen_done = FALSE
    /\ timers = 0
    /\ last_call = "none"

\* next() on the generator: it yields its next batch
GeneratorYield ==
    /\ ~gen_done
    /\ \E batches \in {Batches(gen_addresses, gen_batch_size)} :
        /\ Len(yielded) < Len(batches)
        /\ yielded' = Append(yielded, batches[Len(yielded) + 1])
    /\ UNCHANGED <<gen_addresses, gen_batch_size, gen_done>>
    /\ UNCHANGED notGenVars

\* next() on the generator after its last batch: it returns
GeneratorReturn ==
    /\ ~gen_done
    /\ Len(yielded) = Len(Batches(gen_addresses, gen_batch_size))
    /\ gen_done' = TRUE
    /\ UNCHANGED <<gen_addresses, gen_batch_size, yielded>>
    /\ UNCHANGED notGenVars

NextGenerator == GeneratorYield \/ GeneratorReturn

(***************************************************************************)
(* start() and stop() of the discovery helper: specification               *)
(***************************************************************************)
\* hub.config[CONF_BROADCAST_ADDRESS], valid or not
TimerBroadcastConfs == {<<>>, <<Block25>>, <<BadNetwork>>, <<Block25, BadNetwork>>}

InitTimer ==
    /\ devices \in ScanRegistries
    /\ coordinators = <<>>
    /\ notifed_addresses = {}
    /\ scan = <<>>
    /\ effects = <<>>
    /\ pre = NoSnapshot
    /\ auto_admitted = {}
    /\ last_op = "init"
    /\ coordinator = NewCoordinator(TRUE, 1, FALSE)
    /\ hub_cloud = FALSE
    /\ device_token = NoValue
    /\ device_ttl = 1
    /\ now = 0
    /\ last_refresh = NoCall
    /\ run_start = NoRun
    /\ cycles = [p \in Cycles |-> IdleCycle]
    /\ cooldown = FALSE
    /\ execute_at_end = FALSE
    /\ writes = 0
    /\ window = 0
    /\ pending_window = [a \in Attrs |-> NoWindow]
    /\ window_pushes = [w \in 1..MaxWrites |-> 0]
    /\ broadcast_conf \in TimerBroadcastConfs
    /\ scan_interval \in {0, DEFAULT_SCAN_INTERVAL}
    /\ conf_addresses = <<>>
    /\ broadcast_addresses = <<>>
    /\ address_iterator = EmptyIterator
    /\ remove_discovery = FALSE
    /\ scanned = <<>>
    /\ last_tick = NoTick
    /\ tick_no = 0
    /\ setup_non_lan = FALSE
    /\ hub_data = <<>>
    /\ hub_errors = {}
    /\ updated_conf = FALSE
    /\ setup_result = "none"
    /\ attempted = {}
    /\ refresh_failed = FALSE
    /\ entries = <<>>
    /\ flow = NoFlow
    /\ flow_result = NoResult
    /\ last_login = "none"
    /\ reloaded = FALSE
    /\ live_conf = EmptyConf
    /\ given_conf = EmptyConf
    /\ redaction = NoRedaction
    /\ gen_addresses = <<>>
    /\ gen_batch_size = DISCOVERY_BATCH_SIZE
    /\ yielded = <<>>
    /\ gen_done = FALSE
    /\ timers = 0
    /\ last_call = "none"

\* ApplianceDiscoveryHelper.stop: the state of the timer after the call
stop(handle, registered) ==
    [remove_discovery |-> FALSE,
     timers |-> IF handle THEN registered - 1 ELSE registered]

\* ApplianceDiscoveryHelper.start: the state of the timer after the call
\* Variant: a timer that is running is not stopped first
start_without_stop(handle, registered, setup_raised, interval) ==
    IF setup_raised THEN stop(handle, registered)
    ELSE IF interval # 0
    THEN [remove_discovery |-> TRUE, timers |-> registered + 1]
    ELSE [remove_discovery |-> handle, timers |-> registered]

start(handle, registered, setup_raised, interval) ==
    LET stopped == stop(handle, registered)
    IN  IF setup_raised THEN stop(stopped.remove_discovery, stopped.timers)
        ELSE IF interval # 0
        THEN [remove_discovery |-> TRUE, timers |-> stopped.timers + 1]
        ELSE stopped

\* ApplianceDiscoveryHelper.start is called; the scan interval of the
\* configuration may have been changed
HelperStart ==
    /\ \E interval \in {0, DEFAULT_SCAN_INTERVAL} :
       \E r \in {_setup(devices, <<>>, broadcast_conf)} :
       \E t \in {start(remove_discovery, timers, r.raised, interval)} :
        /\ scan_interval' = interval
        /\ notifed_addresses' = {}
        /\ conf_addresses' = r.conf_addresses
        /\ broadcast_addresses' = r.broadcast_addresses
        /\ address_iterator' = IF r.raised THEN address_iterator ELSE r.address_iterator
        /\ remove_discovery' = t.remove_discovery
        /\ timers' = t.timers
        /\ last_call' = IF r.raised THEN "start_failed" ELSE "start"
    /\ UNCHANGED <<devices, coordinators, scan, effects, pre, auto_admitted, last_op>>
    /\ UNCHANGED <<broadcast_conf, scanned, last_tick, tick_no, setup_non_lan>>
    /\ UNCHANGED <<coordVars, concVars, setupVars, flowVars, redactVars, genVars>>

\* ApplianceDiscoveryHelper.stop is called
HelperStop ==
    /\ \E t \in {stop(remove_discovery, timers)} :
        /\ remove_discovery' = t.remove_discovery
        /\ timers' = t.timers
    /\ last_call' = "stop"
    /\ UNCHANGED discVars
    /\ UNCHANGED <<broadcast_conf, scan_interval, conf_addresses, broadcast_addresses,
                   address_iterator, scanned, last_tick, tick_no, setup_non_lan>>
    /\ UNCHANGED <<coordVars, concVars, setupVars, flowVars, redactVars, genVars>>

\* The options of the entry are changed: another broadcast configuration
BroadcastChanged ==
    /\ \E b \in TimerBroadcastConfs : b # broadcast_conf /\ broadcast_conf' = b
    /\ UNCHANGED discVars
    /\ UNCHANGED <<scan_interval, conf_addresses, broadcast_addresses, address_iterator,
                   remove_discovery, scanned, last_tick, tick_no, setup_non_lan>>
    /\ UNCHANGED <<coordVars, concVars, setupVars, flowVars, redactVars, genVars,
                   timerVars>>

NextTimer == HelperStart \/ HelperStop \/ BroadcastChanged

\* Discovery and reconciliation
Spec == Init /\ [][Next]_vars

\* The refresh cycle of one coordinator
SpecCoord == InitCoord /\ [][NextCoord]_vars

\* Overlapping refresh cycles of one coordinator
SpecConc == InitConc /\ [][NextConc]_vars

\* The periodic discovery: start, stop and ticks
SpecScan == InitScan /\ [][NextScan]_vars

\* The setup of the entry's hub
SpecSetup == InitSetup /\ [][NextSetup]_vars

\* The config flows of the integration
SpecFlow == InitFlow /\ [][NextFlow]_vars

\* The redaction of logged configurations
SpecRedact == InitRedact /\ [][NextRedact]_vars

\* One pass of an address generator
SpecGenerator == InitGenerator /\ [][NextGenerator]_vars

\* start() and stop() of the discovery helper
SpecTimer == InitTimer /\ [][NextTimer]_vars

(***************************************************************************)
(* Reading the record of the last discovery cycle                          *)
(***************************************************************************)
\* A discovery cycle has just run: scan is its input, pre the state before it
CycleDone == scan # <<>>

\* The positions of the scan that report serial number sn with an address
Sightings(sn) ==
    { k \in DOMAIN scan : scan[k].serial_number = sn /\ scan[k].address # NoAddress }

\* The scan reports serial number sn at address a, and at no other address
SightedOnlyAt(sn, a) ==
    /\ Sightings(sn) # {}
    /\ \A k \in Sightings(sn) : scan[k].address = a

\* The scan reports serial number sn exactly once
SightedOnce(sn) == Cardinality({ k \in DOMAIN scan : scan[k].serial_number = sn }) = 1

TrackedBefore(sn) == FindCoordinator(pre.coordinators, sn) # 0

KnownBefore(sn) == \E i \in DOMAIN pre.devices : pre.devices[i].unique_id = sn

Happened(e) == \E k \in DOMAIN effects : effects[k] = e

NotifiedAbout(sn) ==
    \E k \in DOMAIN effects : effects[k].op = "notify" /\ effects[k].serial = sn

CountOf(e) == Cardinality({ k \in DOMAIN effects : effects[k] = e })

(***************************************************************************)
(* C1                                                                      *)
(***************************************************************************)
\* C1: after any sequence of discovery cycles, whatever the scans report (the
\* same serial number twice included), no two DeviceConfig entries of the
\* registry have the same serial number.
RegistrySerialsUnique ==
    \A i, j \in DOMAIN devices : devices[i].unique_id = devices[j].unique_id => i = j

(***************************************************************************)
(* C2                                                                      *)
(***************************************************************************)
\* C2: a config in mode wait, at any position of the registry, whose serial
\* number a scan reports with an address (a supported device, reported once, no
\* coordinator tracking it) is in mode lan after the cycle, holds the address,
\* token, key, version, id and type of the discovered device, keeps its name,
\* and a reload is requested.
WaitPromotedAtAnyPosition ==
    CycleDone =>
        \A i \in DOMAIN pre.devices : \A k \in DOMAIN scan :
            ( /\ pre.devices[i].discovery = DISCOVERY_WAIT
              /\ scan[k].serial_number = pre.devices[i].unique_id
              /\ scan[k].address # NoAddress
              /\ supported_appliance(Include, scan[k])
              /\ SightedOnce(scan[k].serial_number)
              /\ ~TrackedBefore(scan[k].serial_number) )
            => /\ devices[i].discovery = DISCOVERY_LAN
               /\ devices[i].ip_address = scan[k].address
               /\ devices[i].token = scan[k].token
               /\ devices[i].token_key = scan[k].key
               /\ devices[i].api_version = scan[k].version
               /\ devices[i].id = scan[k].appliance_id
               /\ devices[i].type = scan[k].type
               /\ devices[i].name = pre.devices[i].name
               /\ Happened(Reload)

(***************************************************************************)
(* C3                                                                      *)
(***************************************************************************)
\* C3: whatever the registry holds, a discovered device of a supported type
\* that has an address and matches no config and no coordinator is admitted by
\* the cycle: afterwards exactly one config has its serial number, and a reload
\* is requested.
UnknownDeviceAdmitted ==
    CycleDone =>
        \A k \in DOMAIN scan :
            ( /\ scan[k].address # NoAddress
              /\ supported_appliance(Include, scan[k])
              /\ ~KnownBefore(scan[k].serial_number)
              /\ ~TrackedBefore(scan[k].serial_number) )
            => /\ Cardinality({ i \in DOMAIN devices :
                      devices[i].unique_id = scan[k].serial_number }) = 1
               /\ Happened(Reload)

(***************************************************************************)
(* C4                                                                      *)
(***************************************************************************)
\* C4: a config that reconciliation created for an unknown device is in mode
\* ignore when created and after every later discovery cycle and entry setup:
\* it is never in mode lan or cloud.
AdmittedUnknownStaysIgnored ==
    \A i \in auto_admitted :
        /\ i \in DOMAIN devices
        /\ devices[i].discovery = DISCOVERY_IGNORE

\* C4 witness: a later cycle sighted, with an address, a device that an earlier
\* cycle had admitted as unknown
AdmittedUnknownSightedAgain ==
    /\ CycleDone
    /\ \E i \in auto_admitted :
          /\ i \in DOMAIN pre.devices
          /\ Sightings(devices[i].unique_id) # {}

(***************************************************************************)
(* C5                                                                      *)
(***************************************************************************)
\* The case of C5: config i is in mode lan, a coordinator tracks it, and the
\* scan reports its serial number at address a, which is not the coordinator's
\* cached address
LanAddressChanged(i, a) ==
    /\ pre.devices[i].discovery = DISCOVERY_LAN
    /\ TrackedBefore(pre.devices[i].unique_id)
    /\ SightedOnlyAt(pre.devices[i].unique_id, a)
    /\ a # pre.coordinators[FindCoordinator(pre.coordinators,
                                            pre.devices[i].unique_id)].address

MergeIdempotent ==
    [][(CycleDone /\ scan' = scan) => effects' = <<>>]_vars

(***************************************************************************)
(* C7                                                                      *)
(***************************************************************************)
\* The case of C7: the registry is one config in mode cloud whose address is
\* the sentinel, and the scan reports its serial number once, at address a
CloudDeviceSighted(a) ==
    /\ CycleDone
    /\ Len(pre.devices) = 1
    /\ pre.devices[1].discovery = DISCOVERY_CLOUD
    /\ pre.devices[1].ip_address = UNKNOWN_IP
    /\ SightedOnce(pre.devices[1].unique_id)
    /\ SightedOnlyAt(pre.devices[1].unique_id, a)
    /\ \A k \in Sightings(pre.devices[1].unique_id) :
          supported_appliance(Include, scan[k])

\* What C7 expects of the cycle
CloudAddressUpdated(a) ==
    /\ CountOf(Notification("midea_non_lan_discovery", pre.devices[1].unique_id)) = 1
    /\ devices[1].discovery = DISCOVERY_CLOUD
    /\ devices[1].ip_address = a
    /\ Happened(UpdateEntry)
    /\ ~Happened(Reload)

\* C7 as stated: in that case, whether or not a coordinator tracks the serial
\* number, the cycle creates exactly one could-switch-to-LAN notification,
\* leaves the mode cloud, stores the discovered address, saves the
\* configuration and schedules no reload.
CloudSightingUpdatesAddress ==
    \A a \in Addresses : CloudDeviceSighted(a) => CloudAddressUpdated(a)

\* C7 amended: that outcome is the one of a device tracked by a coordinator
\* whose cached address is not the discovered one. Without a coordinator the
\* cycle only notifies (once, if the address was not notified since _setup):
\* the mode stays cloud, the stored address stays the sentinel, nothing is
\* saved and no reload is scheduled.
CloudSightingByCoordinator ==
    \A a \in Addresses :
        CloudDeviceSighted(a) =>
            /\ ( /\ TrackedBefore(pre.devices[1].unique_id)
                 /\ a # pre.coordinators[FindCoordinator(pre.coordinators,
                                           pre.devices[1].unique_id)].address )
               => CloudAddressUpdated(a)
            /\ ~TrackedBefore(pre.devices[1].unique_id)
               => /\ CountOf(Notification("midea_non_lan_discovery",
                                          pre.devices[1].unique_id))
                     = (IF a \in pre.notified THEN 0 ELSE 1)
                  /\ devices[1] = pre.devices[1]
                  /\ ~Happened(UpdateEntry)
                  /\ ~Happened(Reload)

\* C7 witness: a tracked cloud device was sighted at a new address
TrackedCloudDeviceSighted ==
    \E a \in Addresses :
        /\ CloudDeviceSighted(a)
        /\ TrackedBefore(pre.devices[1].unique_id)
        /\ devices[1].ip_address = a

(***************************************************************************)
(* C8                                                                      *)
(***************************************************************************)
\* The cycle added a config to the registry or moved one from wait to lan
AdmittedOrPromoted ==
    \/ Len(devices) > Len(pre.devices)
    \/ \E i \in DOMAIN pre.devices :
          /\ pre.devices[i].discovery = DISCOVERY_WAIT
          /\ devices[i].discovery = DISCOVERY_LAN

\* C8: a cycle schedules a reload only if it admitted a new device or promoted
\* a waiting config to lan, and the configuration was persisted earlier in the
\* same cycle.
ReloadOnlyAfterAdmissionAndSave ==
    CycleDone =>
        \A k \in DOMAIN effects :
            effects[k] = Reload
            => /\ AdmittedOrPromoted
               /\ \E j \in 1..(k - 1) : effects[j] = UpdateEntry

\* C8 witness: a cycle scheduled a reload
ReloadScheduled == CycleDone /\ Happened(Reload)

(***************************************************************************)
(* Claims about the refresh cycle of a coordinator                         *)
(***************************************************************************)
\* The last call met a protocol failure (MideaError)
ProtocolFailure == last_refresh.call.error = "MideaError"

\* C9: with a time to leave of T > 0 seconds, a refresh that fails with a
\* protocol error raises UpdateFailed exactly when at least T seconds have
\* passed since the first failure of the current run of consecutive failures,
\* and otherwise returns without error; a successful refresh ends the run.
UpdateFailedOnlyAfterTimeToLeave ==
    ProtocolFailure =>
        /\ run_start # NoRun
        /\ last_refresh.call.raised <=>
               (last_refresh.time - run_start) >= coordinator.time_to_leave

\* A run of failures that began at an earlier call has reached the time to leave
TimeToLeaveReached ==
    /\ ProtocolFailure
    /\ last_refresh.call.raised
    /\ run_start < last_refresh.time

\* C10: once a run of failures has passed the time to leave the coordinator is
\* unavailable (available is False), and the next refresh asks the hub to
\* discover the device instead of contacting the last known address.
UnavailableAfterTimeToLeave ==
    /\ TimeToLeaveExceeded(last_refresh.call) => ~coordinator.available
    /\ last_refresh.after_ttl =>
           /\ last_refresh.call.detect
           /\ ~last_refresh.call.refreshed \/ coordinator.available

(***************************************************************************)
(* Claims about overlapping refresh cycles                                 *)
(***************************************************************************)
\* C11: while the apply call of one refresh cycle is in flight, wait_for_update
\* is True and no other cycle has an apply or a refresh in flight on the
\* appliance.
ApplyInFlightIsGuarded ==
    \A p \in Cycles :
        cycles[p].pc = "apply" =>
            /\ coordinator.wait_for_update
            /\ \A q \in Cycles \ {p} : cycles[q].pc \notin {"apply", "refresh"}

\* C12: the attributes of the write requests that arrive within one cooldown
\* window of the debouncer are pushed to the device by one apply call.
WindowWritesPushedTogether ==
    \A w \in DOMAIN window_pushes : window_pushes[w] <= 1

(***************************************************************************)
(* Claims about the periodic discovery                                     *)
(***************************************************************************)
\* C13: when the scan of a discovery tick raises an error, the error does not
\* leave _async_discover, the registry, the coordinators, the notified addresses
\* and the side effects are as before the tick, and the timer stays registered.
ScanErrorStaysInTick ==
    [][(tick_no' = tick_no + 1 /\ last_tick'.scan_error)
        => /\ ~last_tick'.raised
           /\ UNCHANGED <<devices, coordinators, notifed_addresses, effects>>
           /\ remove_discovery']_vars

\* The batch the k-th tick after _setup is to scan: the batches in turn,
\* the first one again after the last
BatchInTurn(k) ==
    LET batches == Batches(conf_addresses, DISCOVERY_BATCH_SIZE)
    IN  batches[((k - 1) % Len(batches)) + 1]

\* C14: after a _setup with a configured network block and a config whose mode
\* is not lan, every tick scans the broadcast addresses and the next batch of
\* the network blocks, the first batch again after the last one.
BatchesScannedInTurn ==
    (tick_no > 0 /\ setup_non_lan /\ Blocks(conf_addresses) # <<>>)
        => scanned = broadcast_addresses \o BatchInTurn(tick_no)

(***************************************************************************)
(* Claims about the construction of a coordinator                          *)
(***************************************************************************)
\* const.py documents DEFAULT_TTL as a number of minutes; the coordinator
\* compares its time to leave with time.monotonic(), in seconds
DEFAULT_TTL == 5
Minutes(n) == n * 60

\* C15: the coordinator of a device config without ttl escalates a run of
\* failures after the documented default, DEFAULT_TTL minutes.
DefaultTimeToLeaveIsDocumented ==
    device_ttl = NoTTL => coordinator.time_to_leave = Minutes(DEFAULT_TTL)

(***************************************************************************)
(* Claims about a coordinator without cloud handle                         *)
(***************************************************************************)
\* C17: a refresh of a coordinator in cloud mode whose hub has no cloud handle
\* raises UpdateFailed whatever the time to leave, calls neither apply nor
\* refresh on the appliance, leaves has_failure and first_failure_time as they
\* were, and leaves wait_for_update false.
CloudMissingRaisesAtOnce ==
    [][(CloudMissing(coordinator, hub_cloud) /\ last_refresh' # last_refresh)
        => /\ last_refresh'.call.raised
           /\ ~last_refresh'.call.applied
           /\ ~last_refresh'.call.refreshed
           /\ coordinator'.has_failure = coordinator.has_failure
           /\ coordinator'.first_failure_time = coordinator.first_failure_time
           /\ ~coordinator'.wait_for_update]_vars

\* An available coordinator in cloud mode without cloud handle was refreshed
\* once the clock had passed its time to leave, and the call raised
CloudMissingRefreshed ==
    /\ CloudMissing(coordinator, hub_cloud)
    /\ coordinator.available
    /\ last_refresh.call.error = "cloud"
    /\ last_refresh.call.raised
    /\ last_refresh.time >= coordinator.time_to_leave

(***************************************************************************)
(* Claims about the setup of the hub                                       *)
(***************************************************************************)
\* The unique ids of the configured devices
ConfiguredIds == { devices[i].unique_id : i \in DOMAIN devices }

\* Hub.async_setup has ended, and not with ConfigEntryAuthFailed
SetupEnded == setup_result \notin {"none", "ConfigEntryAuthFailed"}

\* C16: Hub.async_setup returns without raising exactly when no configured
\* device recorded a setup error; unless the cloud login was refused
\* (ConfigEntryAuthFailed), every configured device was attempted, and a setup
\* that did not return raised ConfigEntryNotReady.
SetupReturnsIffNoErrorRecorded ==
    /\ SetupEnded =>
        /\ (setup_result = "returned") <=> (hub_errors = {})
        /\ setup_result # "returned" => setup_result = "ConfigEntryNotReady"
        /\ attempted = ConfiguredIds
    /\ hub_errors \subseteq attempted

(***************************************************************************)
(* Claims about the config flows                                           *)
(***************************************************************************)
\* The flow has discovered appliances, and none of them is to be configured:
\* each one is of a category the entry does not include, or was set to be
\* ignored by the user
NothingToConfigure(f) ==
    /\ f.cloud
    /\ \A i \in DOMAIN f.appliances :
        \/ ~supported_appliance(f.include, f.appliances[i])
        \/ f.chosen[i] = DISCOVERY_IGNORE

\* C18: when the step of a flow started by the user finishes the flow with no
\* supported appliance to configure, the flow is aborted with reason
\* no_configured_devices and no config entry is created.
NoDevicesAbortsUserFlow ==
    [][(flow'.source = "user" /\ flow'.step = "finished" /\ flow.step # "finished"
        /\ NothingToConfigure(flow'))
        => /\ flow_result'.type = "abort"
           /\ flow_result'.reason = "no_configured_devices"
           /\ entries' = entries]_vars

\* A flow started by the user ended with no_configured_devices after the user
\* had every discovered appliance ignored
UserFlowEndedWithoutDevices ==
    /\ flow.source = "user"
    /\ flow.step = "finished"
    /\ flow.appliances # <<>>
    /\ NothingToConfigure(flow)
    /\ \E i \in DOMAIN flow.chosen : flow.chosen[i] = DISCOVERY_IGNORE
    /\ flow_result.reason = "no_configured_devices"
    /\ entries = <<>>

\* The steps that log in to the Midea cloud
LoginSteps == {"user", "advanced_settings", "reauth_confirm"}

\* C19: when the cloud login of the step user, advanced_settings or
\* reauth_confirm fails with an authentication error or another Midea error,
\* the step shows its own form again with an error, and the config entries are
\* as before.
FailedLoginShowsFormAgain ==
    [][(flow.step \in LoginSteps /\ last_login' \in {"auth", "midea"})
        => /\ flow_result'.type = "form"
           /\ flow_result'.step_id = flow.step
           /\ flow_result'.errors # ""
           /\ flow'.step = flow.step
           /\ entries' = entries]_vars

\* The login of a reauth_confirm step failed while an entry exists
ReauthLoginFailed ==
    /\ flow.source = "reauth"
    /\ flow.step = "reauth_confirm"
    /\ last_login \in {"auth", "midea"}
    /\ flow_result.errors = "no_cloud"
    /\ entries # <<>>

\* C20: a reauth flow whose cloud login succeeds ends with abort reason
\* reauth_successful, and exactly one config entry of the account exists
\* afterwards.
ReauthEndsSuccessful ==
    (flow.source = "reauth" /\ last_login = "ok")
        => /\ flow_result.type = "abort"
           /\ flow_result.reason = "reauth_successful"
           /\ Cardinality({ i \in DOMAIN entries :
                              entries[i].unique_id = flow.username }) = 1

(***************************************************************************)
(* Claims about the redaction of logged configurations                     *)
(***************************************************************************)
\* The text is masked to its length
MaskOf(text) == Stars(Len(text))

\* C21: after a redacted copy of a configuration was produced, the live
\* configuration has the value it was given with (username, password and every
\* device's token, key, id and serial), and the returned copy has the password
\* and every device's token and key masked to the same length.
RedactionLeavesConfiguration ==
    redaction.op # "none" =>
        /\ live_conf = given_conf
        /\ ~redaction.raised
        /\ redaction.conf.password = MaskOf(given_conf.password)
        /\ DOMAIN redaction.conf.devices = DOMAIN given_conf.devices
        /\ \A i \in DOMAIN given_conf.devices :
            /\ redaction.conf.devices[i].token = MaskOf(given_conf.devices[i].token)
            /\ redaction.conf.devices[i].token_key
                   = MaskOf(given_conf.devices[i].token_key)

(***************************************************************************)
(* Claims about the on-demand discovery of an unavailable coordinator      *)
(***************************************************************************)
\* The attributes that are in the pending map
Pending(updating) == { a \in Attrs : updating[a] # Unset }

BlockHosts(addresses) ==
    LET blocks == Blocks(addresses)
    IN  Flatten([i \in DOMAIN blocks |-> Hosts(blocks[i])])

\* C23: every batch the generator yields is non-empty and has at most
\* batch_size addresses, and when the generator has returned the batches put
\* together are the host addresses of every configured block, in order.
BatchesSplitBlockHosts ==
    /\ \A b \in DOMAIN yielded :
        yielded[b] # <<>> /\ Len(yielded[b]) <= gen_batch_size
    /\ gen_done => Flatten(yielded) = BlockHosts(gen_addresses)

(***************************************************************************)
(* Claims about the could-switch-to-LAN notification                       *)
(***************************************************************************)
\* The could-switch-to-LAN notifications the last discovery cycle created
LanNotifications ==
    { k \in DOMAIN effects : /\ effects[k].op = "notify"
                             /\ effects[k].kind = "midea_non_lan_discovery" }

\* C24: between two calls of _setup at most one could-switch-to-LAN
\* notification is created per address: a discovery cycle creates one
\* notification for every address it adds to the notified addresses and none
\* for an address that is already among them, whichever pass sights the device,
\* and an address leaves the notified addresses only when _setup runs.
LanNotifiedOncePerAddress ==
    /\ [](CycleDone =>
            /\ pre.notified \subseteq notifed_addresses
            /\ Cardinality(LanNotifications)
                   = Cardinality(notifed_addresses \ pre.notified))
    /\ [][~(notifed_addresses \subseteq notifed_addresses')
              => last_op' \in {"setup", "start"}]_vars

\* A device whose config is neither wait nor lan was sighted again at an
\* address already notified, and the cycle created no notification
SightedAgainAtNotifiedAddress ==
    /\ CycleDone
    /\ LanNotifications = {}
    /\ pre.devices # <<>>
    /\ pre.devices[1].discovery \notin {DISCOVERY_WAIT, DISCOVERY_LAN}
    /\ \E k \in DOMAIN scan :
        /\ scan[k].serial_number = pre.devices[1].unique_id
        /\ scan[k].address \in pre.notified
        /\ supported_appliance(Include, scan[k])
        /\ \/ ~TrackedBefore(scan[k].serial_number)
           \/ pre.coordinators[FindCoordinator(pre.coordinators,
                                               scan[k].serial_number)].address
                  # scan[k].address

(***************************************************************************)
(* Claims about the pending writes                                         *)
(***************************************************************************)
\* appliance.apply was called and did not raise
ApplySucceeded(out) == out.applied /\ (out.refreshed \/ out.error = "none")

\* appliance.apply was called and raised MideaError
ApplyFailed(out) == out.applied /\ ~out.refreshed /\ out.error = "MideaError"

\* C25: no accepted write is dropped. The pending map is emptied only by a
\* call whose apply completed successfully; a call whose apply raised
\* MideaError, or that the missing cloud handle ended, leaves the writes
\* pending.
WritesPendingUntilApplied ==
    [][LET out == last_refresh'.call
       IN  /\ (coordinator.updating # NoPending /\ coordinator'.updating = NoPending)
                => ApplySucceeded(out)
           /\ ( /\ last_refresh' # last_refresh
                /\ \/ ApplyFailed(out)
                   \/ out.error = "cloud" /\ coordinator.updating # NoPending )
                => coordinator'.updating # NoPending
      ]_vars

(***************************************************************************)
(* Claims about the modes of the registry                                  *)
(***************************************************************************)
\* C26: a step changes the discovery mode of an existing DeviceConfig only
\* from wait to lan, removes no DeviceConfig and changes no serial number.
ModeChangesOnlyFromWaitToLan ==
    [][/\ Len(devices') >= Len(devices)
       /\ \A i \in DOMAIN devices :
            /\ devices'[i].unique_id = devices[i].unique_id
            /\ devices'[i].discovery # devices[i].discovery =>
                /\ devices[i].discovery = DISCOVERY_WAIT
                /\ devices'[i].discovery = DISCOVERY_LAN
      ]_vars

\* A cycle promoted a waiting config while it sighted the device of a config
\* in another mode, which kept its mode
WaitPromotedOthersKept ==
    /\ CycleDone
    /\ \E i, j \in DOMAIN pre.devices :
        /\ pre.devices[i].discovery = DISCOVERY_WAIT
        /\ devices[i].discovery = DISCOVERY_LAN
        /\ pre.devices[j].discovery \in {DISCOVERY_CLOUD, DISCOVERY_IGNORE}
        /\ Sightings(pre.devices[j].unique_id) # {}
        /\ devices[j].discovery = pre.devices[j].discovery

(***************************************************************************)
(* Claims about the coordinators of the hub                                *)
(***************************************************************************)
\* C27: after any sequence of setup attempts, those repeated on the same Hub
\* after ConfigEntryNotReady included, hub.coordinators holds at most one
\* coordinator per device serial number.
OneCoordinatorPerSerial ==
    \A i, j \in DOMAIN coordinators :
        coordinators[i].serial_number = coordinators[j].serial_number => i = j

(***************************************************************************)
(* Claims about what a reauth leaves alone                                 *)
(***************************************************************************)
\* C28: a successful reauth changes only the credentials of the stored entry:
\* the step of a reauth flow whose cloud login succeeds leaves the entry of the
\* account in place, with the device list it had before.
ReauthKeepsDevices ==
    [][(flow.step = "reauth_confirm" /\ last_login' = "ok") =>
          /\ Len(entries') = Len(entries)
          /\ \A i \in DOMAIN entries :
                /\ entries'[i].unique_id = entries[i].unique_id
                /\ entries'[i].devices = entries[i].devices
      ]_vars

(***************************************************************************)
(* Claims about the periodic discovery timer                               *)
(***************************************************************************)
\* C29: after any sequence of start() and stop() calls at most one periodic
\* discovery timer is registered, the helper holds the handle of the timer
\* that is registered, and no timer is registered after stop(), after a
\* start() that failed in _setup, or after a start() with a scan interval of 0.
AtMostOneDiscoveryTimer ==
    /\ timers <= 1
    /\ remove_discovery <=> timers = 1
    /\ last_call \in {"stop", "start_failed"} => timers = 0
    /\ (last_call = "start" /\ scan_interval = 0) => timers = 0

\* start() with a non-zero scan interval failed in _setup, on the second
\* broadcast address of the configuration
StartFailedInSetup ==
    /\ last_call = "start_failed"
    /\ scan_interval # 0
    /\ timers = 0
    /\ Len(broadcast_addresses) = 2

(***************************************************************************)
(* Claims about the guard flag of the refresh                              *)
(***************************************************************************)
NoCycleInFlight == \A p \in Cycles : cycles[p] = IdleCycle

\* C30: whenever no refresh cycle of the coordinator is in flight,
\* wait_for_update is False: a cycle that set the guard flag clears it on every
\* way out (success, MideaError, UpdateFailed).
GuardClearWhenNoCycleInFlight == NoCycleInFlight => ~coordinator.wait_for_update

\* An apply call began, so its cycle had set the guard flag; a cycle ended with
\* MideaError; no cycle is in flight and nothing is pending
GuardClearedAfterFailedCycle ==
    /\ NoCycleInFlight
    /\ \E w \in DOMAIN window_pushes : window_pushes[w] > 0
    /\ coordinator.has_failure
    /\ coordinator.updating = NoPending
    /\ ~coordinator.wait_for_update

====
